---- MODULE Spec2Model ----
(***************************************************************************)
(* Model of the secret scanner src/poop/scan-secrets.js (Source Secure):   *)
(* the finding merger, the scan run of main (walk, join, external scan,    *)
(* merge, history, exit code), the archive handler and its format          *)
(* dispatch, the detection passes of scanFile, and the external tool       *)
(* adapter (availability probe and output parser).                         *)
(*                                                                         *)
(* Strings are sequences of one-character strings, so that toLowerCase,    *)
(* substring and includes are computed as the code computes them.          *)
(***************************************************************************)
EXTENDS Integers, Sequences, FiniteSets, TLC

VARIABLES
    \* ---- merger (mergeFindingsWithExternal called on two lists) ----
    internalFindings,   \* the first argument of the merge
    externalFindings,   \* the second argument of the merge
    merged,             \* the list the merge returned
    mpc,                \* "input" before the call, "merged" after it
    \* ---- one scan run (main) ----
    flags,              \* [history, ai, verbose], parsed from the arguments
    entries,            \* the directory entries of the target, in walk order
    walkPos,            \* the entry the synchronous walk is at
    pc,                 \* where main is
    scanPromises,       \* the scans dispatched by the walk, in dispatch order
    settleOrder,        \* the order in which pending scans settled
    findings,           \* main's findings array
    extResult,          \* what runExternalScans returned
    extTool,            \* what the external tool did in this run
    historyFindings,    \* what scanGitHistory returned
    gitRun,             \* what the git calls of scanGitHistory met
    printed,            \* the result display: "nothing", "noSecrets", "summary"
    exitCode,           \* -1 while the process runs, then its exit status
    \* ---- one archive job (scanArchive) ----
    apc,                \* where scanArchive is
    stack,              \* the active extractArchive calls, outermost first
    tempExists,         \* the job's temporary directory exists
    nestedDirs,         \* nested_* directories inside the temporary directory
    bytesOnDisk,        \* bytes extracted into the temporary directory
    secretsOnDisk,      \* extracted scannable files that hold a secret
    extractedSize,      \* what extractArchive(archivePath, tempDir) returned
    runs,               \* archives handed to a format extractor so far
    lastRun,            \* the format extractor run of the last step, if any
    rejectedDepths,     \* depths at which a format extractor rejected
    alog,               \* kinds of lines the job has logged
    aresult,            \* the findings scanArchive returned
    \* ---- detection (scanFile called on one file after another) ----
    lastIndex,          \* lastIndex of the pattern of each detector
    contents,           \* the contents of the files, in scan order
    scanned,            \* how many of them scanFile has scanned
    returned,           \* what each call returned, in call order
    flagged,            \* what isHighEntropyString returned, in call order
    dpc,                \* which detection run this is, "idle" for none
    \* ---- temporary directories of the archive jobs of one walk ----
    now,                \* what Date.now() returns
    jobs,               \* the scanArchive calls dispatched so far
    tpc,                \* "walk", "join", or "idle" for no such run
    \* ---- one call of the external tool adapter ----
    config,             \* EXTERNAL_TOOLS_CONFIG[toolName]
    commandsWorking,    \* the commands whose `--version` call succeeds
    probed,             \* the commands checkExternalTool has probed, in order
    probeResult,        \* what checkExternalTool returned
    toolOutput,         \* the lines the tool wrote
    parsed,             \* what runTruffleHog returned
    xpc,                \* where the adapter is, "idle" for no such run
    \* ---- one file met by the walk or found in an extracted archive ----
    archivePath,        \* the path of the file
    method,             \* the extraction method extractArchive chose for it
    fpc                 \* "met", "scanFile", "extractArchive", "extracting"

mvars == <<internalFindings, externalFindings, merged, mpc>>

svars == <<flags, entries, walkPos, pc, scanPromises, settleOrder, findings,
           extResult, extTool, historyFindings, gitRun, printed, exitCode>>

avars == <<apc, stack, tempExists, nestedDirs, bytesOnDisk, secretsOnDisk,
           extractedSize, runs, lastRun, rejectedDepths, alog, aresult>>

dvars == <<lastIndex, contents, scanned, returned, flagged, dpc>>

tvars == <<now, jobs, tpc>>

xvars == <<config, commandsWorking, probed, probeResult, toolOutput, parsed,
           xpc>>

fvars == <<archivePath, method, fpc>>

vars == <<mvars, svars, avars, dvars, tvars, xvars, fvars>>

----------------------------------------------------------------------------
(* Strings                                                                 *)

Min(a, b) == IF a < b THEN a ELSE b
Max(a, b) == IF a > b THEN a ELSE b

UpperChars == <<"A","B","C","D","E","F","G","H","I","J","K","L","M",
                "N","O","P","Q","R","S","T","U","V","W","X","Y","Z">>
LowerChars == <<"a","b","c","d","e","f","g","h","i","j","k","l","m",
                "n","o","p","q","r","s","t","u","v","w","x","y","z">>

\* String.prototype.toLowerCase on one character
LowerChar(c) ==
    IF \E i \in 1..Len(UpperChars) : UpperChars[i] = c
    THEN LowerChars[CHOOSE i \in 1..Len(UpperChars) : UpperChars[i] = c]
    ELSE c

\* String.prototype.toLowerCase
toLowerCase(s) == [i \in 1..Len(s) |-> LowerChar(s[i])]

\* String.prototype.substring(0, n)
substring0(s, n) == SubSeq(s, 1, Min(n, Len(s)))

\* String.prototype.includes
includes(s, t) ==
    \E k \in 0..(Len(s) - Len(t)) : SubSeq(s, k + 1, k + Len(t)) = t

DigitChars == <<"0","1","2","3","4","5","6","7","8","9">>

\* the decimal text a template literal gives a non-negative number
RECURSIVE NumberToString(_)
NumberToString(n) ==
    IF n < 10 THEN <<DigitChars[n + 1]>>
    ELSE NumberToString(n \div 10) \o <<DigitChars[(n % 10) + 1]>>

----------------------------------------------------------------------------
(* Findings and the merger                                                 *)

\* length of the match prefix compared when an external finding is attached
PrefixLen == 20

\* line of a finding that has no line field (entropy, base64, multi-line, AI)
NoLine == -1

\* `${finding.line}`
LineText(line) ==
    IF line = NoLine THEN <<"u","n","d","e","f","i","n","e","d">>
    ELSE NumberToString(line)

FingerprintCaseSensitive(f) ==
    f.file \o <<":">> \o LineText(f.line) \o <<":">> \o f.match

\* `${finding.file}:${finding.line}:${finding.match}`.toLowerCase()
Fingerprint(f) ==
    toLowerCase(f.file \o <<":">> \o LineText(f.line) \o <<":">> \o f.match)

\* the predicate of allFindings.find(...) in the merge
MatchesExisting(f, finding) ==
    /\ f.file = finding.file
    /\ f.line = finding.line
    /\ includes(toLowerCase(f.match),
                substring0(toLowerCase(finding.match), PrefixLen))

\* Array.prototype.find: index of the first element that satisfies the
\* predicate, 0 when there is none
FindExisting(all, finding) ==
    IF \E i \in 1..Len(all) : MatchesExisting(all[i], finding)
    THEN CHOOSE i \in 1..Len(all) :
            /\ MatchesExisting(all[i], finding)
            /\ \A k \in 1..(i - 1) : ~MatchesExisting(all[k], finding)
    ELSE 0

AttachAlwaysCritical(f, finding) ==
    [f EXCEPT !.verifiedBy = Append(@, finding.tool),
              !.severity = "CRITICAL"]

AttachToolOnly(f, finding) ==
    [f EXCEPT !.verifiedBy = Append(@, finding.tool)]

\* the else branch: record the tool on the finding found, upgrade if verified
AttachVerification(f, finding) ==
    [f EXCEPT !.verifiedBy = Append(@, finding.tool),
              !.severity = IF finding.verified /\ @ # "CRITICAL"
                           THEN "CRITICAL" ELSE @]

MergeOneAlwaysAppend(acc, finding) ==
    [all  |-> Append(acc.all, [finding EXCEPT !.source = finding.tool,
                                              !.isExternal = TRUE]),
     seen |-> acc.seen \cup {Fingerprint(finding)}]

\* one iteration of the loop over externalFindings;
\* acc = [all |-> allFindings, seen |-> seenSecrets]
MergeOne(acc, finding) ==
    LET fingerprint == Fingerprint(finding) IN
    IF fingerprint \notin acc.seen
    THEN [all  |-> Append(acc.all, [finding EXCEPT !.source = finding.tool,
                                                   !.isExternal = TRUE]),
          seen |-> acc.seen \cup {fingerprint}]
    ELSE LET i == FindExisting(acc.all, finding) IN
         IF i = 0 THEN acc
         ELSE [acc EXCEPT !.all[i] = AttachVerification(acc.all[i], finding)]

RECURSIVE MergeLoop(_, _)
MergeLoop(acc, ext) ==
    IF ext = <<>> THEN acc
    ELSE MergeLoop(MergeOne(acc, Head(ext)), Tail(ext))

RECURSIVE DedupInternal(_, _)
DedupInternal(internal, seen) ==
    IF internal = <<>> THEN <<>>
    ELSE IF Fingerprint(Head(internal)) \in seen
         THEN DedupInternal(Tail(internal), seen)
         ELSE <<Head(internal)>>
              \o DedupInternal(Tail(internal),
                               seen \cup {Fingerprint(Head(internal))})

CopyInternalDeduplicated(internal) == DedupInternal(internal, {})

\* const allFindings = [...internalFindings]
CopyInternal(internal) == internal

mergeFindingsWithExternal(internal, ext) ==
    MergeLoop([all  |-> CopyInternal(internal),
               seen |-> {Fingerprint(internal[i]) : i \in 1..Len(internal)}],
              ext).all

----------------------------------------------------------------------------
(* Inputs of the merger                                                    *)

\* total number of findings handed to one merge
MaxFindings == 2

\* a 20-character matched text, and texts that extend or shorten it
KeyText == [i \in 1..PrefixLen |-> "k"]
Matches == { KeyText, KeyText \o <<"x">>, KeyText \o <<"X">>, <<"k", "k">> }

\* file and line of a finding; the two files differ in letter case only
Locations == { <<(<<"f">>), 1>>, <<(<<"F">>), 1>>, <<(<<"f">>), 2>> }

\* severity of the detector that produced a match
DetectorSeverity(m) ==
    IF Len(m) < PrefixLen THEN "LOW"
    ELSE IF Len(m) = PrefixLen THEN "MEDIUM"
    ELSE IF m[Len(m)] = "x" THEN "HIGH" ELSE "CRITICAL"

\* a finding as scanFile pushes it
InternalFinding(loc, m) ==
    [type |-> "Detector", file |-> loc[1], line |-> loc[2], match |-> m,
     severity |-> DetectorSeverity(m), tool |-> "none", verified |-> FALSE,
     verifiedBy |-> <<>>, source |-> "none", isExternal |-> FALSE]

\* a finding as runTruffleHog pushes it
ExternalFinding(loc, m, v) ==
    [type |-> "Detector", file |-> loc[1], line |-> loc[2], match |-> m,
     severity |-> IF v THEN "CRITICAL" ELSE "HIGH", tool |-> "TruffleHog",
     verified |-> v, verifiedBy |-> <<>>, source |-> "none",
     isExternal |-> FALSE]

InternalPool == { InternalFinding(loc, m) : loc \in Locations, m \in Matches }
ExternalPool == { ExternalFinding(loc, m, v) :
                    loc \in Locations, m \in Matches, v \in BOOLEAN }

SeqsUpTo(S, n) == UNION { [1..k -> S] : k \in 0..n }

\* scanGitHistory has not been called
NoGit == [called |-> FALSE]

\* runExternalScans has not been called (run is "notRun" when it has been
\* called and no command works, else how the tool run ended)
NoTool == [working |-> {}, run |-> "notCalled"]

\* no scan run is in progress
ScanIdle ==
    /\ flags = [history |-> FALSE, ai |-> FALSE, verbose |-> FALSE]
    /\ entries = <<>>
    /\ walkPos = 1
    /\ pc = "idle"
    /\ scanPromises = <<>>
    /\ settleOrder = <<>>
    /\ findings = <<>>
    /\ extResult = <<>>
    /\ extTool = NoTool
    /\ historyFindings = <<>>
    /\ gitRun = NoGit
    /\ printed = "nothing"
    /\ exitCode = -1

\* no archive job is in progress
ArchiveIdle ==
    /\ apc = "idle"
    /\ stack = <<>>
    /\ tempExists = FALSE
    /\ nestedDirs = 0
    /\ bytesOnDisk = 0
    /\ secretsOnDisk = 0
    /\ extractedSize = 0
    /\ runs = 0
    /\ lastRun = [ran |-> FALSE]
    /\ rejectedDepths = {}
    /\ alog = {}
    /\ aresult = <<>>

\* no merge call is in progress
MergeIdle ==
    /\ internalFindings = <<>>
    /\ externalFindings = <<>>
    /\ merged = <<>>
    /\ mpc = "idle"

\* no detection run is in progress
DetectIdle ==
    /\ lastIndex = <<>>
    /\ contents = <<>>
    /\ scanned = 0
    /\ returned = <<>>
    /\ flagged = <<>>
    /\ dpc = "idle"

\* no walk with archive jobs is in progress
TempIdle ==
    /\ now = 0
    /\ jobs = <<>>
    /\ tpc = "idle"

\* the configuration of a tool the registry does not name
NoConfig ==
    [known |-> FALSE, enabled |-> FALSE, command |-> "",
     fallbackCommands |-> <<>>, hasFallbackCommands |-> FALSE,
     fallbackCommand |-> ""]

\* no call of the external tool adapter is in progress
ExternalIdle ==
    /\ config = NoConfig
    /\ commandsWorking = {}
    /\ probed = <<>>
    /\ probeResult = "none"
    /\ toolOutput = <<>>
    /\ parsed = <<>>
    /\ xpc = "idle"

\* no file is being dispatched
DispatchIdle ==
    /\ archivePath = <<>>
    /\ method = "none"
    /\ fpc = "idle"

MergeInit ==
    /\ ScanIdle
    /\ ArchiveIdle
    /\ DetectIdle
    /\ TempIdle
    /\ ExternalIdle
    /\ DispatchIdle
    /\ \E n \in 0..MaxFindings :
         /\ internalFindings \in SeqsUpTo(InternalPool, n)
         /\ externalFindings \in SeqsUpTo(ExternalPool, MaxFindings - n)
    /\ merged = <<>>
    /\ mpc = "input"

\* the call mergeFindingsWithExternal(internalFindings, externalFindings)
CallMerge ==
    /\ mpc = "input"
    /\ merged' = mergeFindingsWithExternal(internalFindings, externalFindings)
    /\ mpc' = "merged"
    /\ UNCHANGED <<internalFindings, externalFindings, svars, avars, dvars, tvars, xvars, fvars>>

MergeNext == CallMerge

SpecMerge == MergeInit /\ [][MergeNext]_vars

\* ---- merges of findings that all lie on one line of one file ----

\* findings of either list on the line
MaxSameLine == 2

\* the line
SharedLocation == <<(<<"f">>), 1>>

SameLineInit ==
    /\ ScanIdle
    /\ ArchiveIdle
    /\ DetectIdle
    /\ TempIdle
    /\ ExternalIdle
    /\ DispatchIdle
    /\ internalFindings
         \in SeqsUpTo({InternalFinding(SharedLocation, m) : m \in Matches},
                      MaxSameLine)
    /\ externalFindings
         \in SeqsUpTo({ExternalFinding(SharedLocation, m, v) :
                          m \in Matches, v \in BOOLEAN},
                      MaxSameLine)
    /\ merged = <<>>
    /\ mpc = "input"

SpecSameLine == SameLineInit /\ [][MergeNext]_vars

----------------------------------------------------------------------------
(* One scan run: main                                                      *)

\* number of directory entries of the scanned tree
MaxEntries == 2

\* what the walk meets at one entry:
\*   ignored    the name is .git, node_modules, dist or build
\*   statFails  fs.statSync throws (dangling link, vanished, no permission)
\*   dir        a directory that fs.readdirSync lists (its entries follow)
\*   dirNoList  a directory on which fs.readdirSync throws
\*   archive    a file whose extension is an archive extension
\*   scannable  a file whose extension is scanned (or that has none)
\*   other      any other file, or an entry that is neither file nor directory
EntryKinds == {"ignored", "statFails", "dir", "dirNoList", "archive",
               "scannable", "other"}

\* path.join(dir, item) of the entry at position i
EntryPath(i) == <<"f">> \o NumberToString(i)

\* the findings scanFile can return for the file at entry i: none, or one of
\* MEDIUM or HIGH severity
FileResults(i) ==
    {<<>>} \cup { <<InternalFinding(<<EntryPath(i), 1>>, m)>> :
                    m \in {KeyText, KeyText \o <<"x">>} }

\* findings of checkWithOllama, with the file added by scanFile
AIFinding(i) ==
    [type |-> "AI-Detected Secret", file |-> EntryPath(i), line |-> NoLine,
     match |-> <<"s">>, severity |-> "MEDIUM", tool |-> "none",
     verified |-> FALSE, verifiedBy |-> <<>>, source |-> "none",
     isExternal |-> FALSE]

AIResults(i) == {<<>>, <<AIFinding(i)>>}

\* the findings scanArchive can return for the archive at entry i: none, or
\* one of LOW or CRITICAL severity; the file field is
\* `${archivePath} -> ${path inside the archive}`
ArchiveResults(i) ==
    {<<>>} \cup { <<InternalFinding(<<EntryPath(i) \o <<" ", ">", " ", "a">>, 1>>, m)>> :
                    m \in {<<"k", "k">>, KeyText \o <<"X">>} }

\* EXTERNAL_TOOLS_CONFIG.trufflehog.command on a platform other than win32
PrimaryCommand == "trufflehog"

\* config.fallbackCommands || (config.fallbackCommand ? [...] : []): the
\* configuration names neither
fallbackCommands == <<>>

\* checkExternalTool('trufflehog'): the first of the primary command and
\* the fallbacks whose `--version` call succeeds, "false" when none does
\* (working is the set of commands whose call succeeds)
checkExternalTool(working) ==
    LET commands == <<PrimaryCommand>> \o fallbackCommands
        ok == {k \in 1..Len(commands) : commands[k] \in working}
    IN IF ok = {} THEN "false"
       ELSE commands[CHOOSE k \in ok : \A j \in ok : k <= j]

\* a line of the tool's output that JSON.parse rejects
InvalidLine == [json |-> FALSE]

\* a line of the tool's output that JSON.parse accepts, as the object it
\* gives: Raw and RawV2 are <<>> when the object lacks them or they are the
\* empty string, Verified is FALSE when it is absent
ToolLine(raw, rawV2, verified) ==
    [json |-> TRUE, Raw |-> raw, RawV2 |-> rawV2, Verified |-> verified,
     DetectorName |-> "Detector", file |-> EntryPath(1), line |-> 1]

\* the lines the tool writes in a scan run
ToolLines ==
    { InvalidLine } \cup
    { ToolLine(c.match, c.match, c.verified) :
        c \in { [match |-> KeyText, verified |-> FALSE],
                [match |-> KeyText \o <<"X">>, verified |-> TRUE] } }

\* characters of Raw kept in the match of a finding
RawPreviewLen == 50

\* result.Raw.substring(0, 50) + (result.Raw.length > 50 ? '...' : '')
RawPreview(raw) ==
    substring0(raw, RawPreviewLen)
      \o (IF Len(raw) > RawPreviewLen THEN <<".", ".", ".">> ELSE <<>>)

\* the object findings.push(...) adds for a parsed line (rawData, which
\* nothing reads, is left out)
TruffleFinding(result) ==
    [type |-> IF result.DetectorName = "" THEN "Unknown Secret"
              ELSE result.DetectorName,
     file |-> IF result.file = <<>> THEN <<"U", "n", "k", "n", "o", "w", "n", " ", "f", "i", "l", "e">> ELSE result.file,
     line |-> result.line,
     match |-> RawPreview(result.Raw),
     severity |-> IF result.Verified THEN "CRITICAL" ELSE "HIGH",
     tool |-> "TruffleHog", verified |-> result.Verified,
     verifiedBy |-> <<>>, source |-> "none", isExternal |-> FALSE]

ParsesAsJson(result) == result.json

\* JSON.parse(line) does not throw and result.Raw && result.RawV2
CarriesRaw(result) ==
    /\ result.json
    /\ result.Raw # <<>>
    /\ result.RawV2 # <<>>

\* what the tool has written to stdout when execPromise settles
ToolOutputs == {<<>>} \cup { <<l>> : l \in ToolLines }

\* how the tool invocation ends: it exits with status 0, it fails (non-zero
\* status, output above maxBuffer, spawn error), or it is killed at the
\* 60 second timeout
ToolRuns == {"ok", "fails", "timeout"}

\* the findings runTruffleHog parses from the output lines
RECURSIVE ParseLines(_)
ParseLines(lines) ==
    IF lines = <<>> THEN <<>>
    ELSE (IF CarriesRaw(Head(lines)) THEN <<TruffleFinding(Head(lines))>>
          ELSE <<>>)
            \o ParseLines(Tail(lines))

runTruffleHogAnyway(run, stdout) == ParseLines(stdout)

\* runTruffleHog(targetPath, commandPath): execPromise rejects when the run
\* fails or times out, and the catch returns []
runTruffleHog(run, stdout) ==
    IF run = "ok" THEN ParseLines(stdout) ELSE <<>>

\* runExternalScans(targetPath)
runExternalScans(working, run, stdout) ==
    IF checkExternalTool(working) = "false" THEN <<>>
    ELSE runTruffleHog(run, stdout)

\* ---- checkExternalTool, one probe at a time ----

\* fallback commands one configuration lists
MaxFallbacks == 2

\* commands a configuration can name besides the primary one
FallbackPool == {"/usr/local/bin/trufflehog", "/opt/trufflehog"}

\* EXTERNAL_TOOLS_CONFIG.trufflehog as the file defines it: enabled, with
\* neither fallbackCommands nor fallbackCommand
ShippedConfig ==
    [known |-> TRUE, enabled |-> TRUE, command |-> PrimaryCommand,
     fallbackCommands |-> <<>>, hasFallbackCommands |-> FALSE,
     fallbackCommand |-> ""]

\* what EXTERNAL_TOOLS_CONFIG[toolName] can be: nothing for a name the
\* registry lacks, else an entry that is enabled or not and that has a
\* fallbackCommands array, a fallbackCommand, both or neither
ToolConfigs ==
    {NoConfig} \cup
    { cfg \in [known : {TRUE}, enabled : BOOLEAN, command : {PrimaryCommand},
               fallbackCommands : SeqsUpTo(FallbackPool, MaxFallbacks),
               hasFallbackCommands : BOOLEAN,
               fallbackCommand : FallbackPool \cup {""}] :
        cfg.hasFallbackCommands \/ cfg.fallbackCommands = <<>> }

FallbackCommandOnly(cfg) ==
    IF cfg.fallbackCommand # "" THEN <<cfg.fallbackCommand>> ELSE <<>>

\* config.fallbackCommands || (config.fallbackCommand
\*                               ? [config.fallbackCommand] : [])
FallbackCommandsOf(cfg) ==
    IF cfg.hasFallbackCommands THEN cfg.fallbackCommands
    ELSE IF cfg.fallbackCommand # "" THEN <<cfg.fallbackCommand>> ELSE <<>>

ProbeInit ==
    /\ MergeIdle
    /\ ScanIdle
    /\ ArchiveIdle
    /\ DetectIdle
    /\ TempIdle
    /\ DispatchIdle
    /\ config \in ToolConfigs
    /\ commandsWorking \in SUBSET ({PrimaryCommand} \cup FallbackPool)
    /\ probed = <<>>
    /\ probeResult = "none"
    /\ toolOutput = <<>>
    /\ parsed = <<>>
    /\ xpc = "call"

\* if (!config || !config.enabled) return false
ProbeRefused ==
    /\ xpc = "call"
    /\ ~config.known \/ ~config.enabled
    /\ probeResult' = "false"
    /\ xpc' = "returned"
    /\ UNCHANGED <<mvars, svars, avars, dvars, tvars, fvars, config, commandsWorking,
                   probed, toolOutput, parsed>>

\* await execPromise(`${config.command} --version`): the call resolves and
\* the function returns the command, or it rejects and the catch block
\* starts on the fallbacks
ProbePrimary ==
    /\ xpc = "call"
    /\ config.known /\ config.enabled
    /\ probed' = Append(probed, config.command)
    /\ IF config.command \in commandsWorking
       THEN /\ probeResult' = config.command
            /\ xpc' = "returned"
       ELSE /\ xpc' = "fallback"
            /\ UNCHANGED probeResult
    /\ UNCHANGED <<mvars, svars, avars, dvars, tvars, fvars, config, commandsWorking,
                   toolOutput, parsed>>

\* one iteration of for (const fallbackCmd of fallbackCommands): the probe
\* resolves and the function returns fallbackCmd, or it rejects and the
\* loop continues
ProbeFallback ==
    /\ xpc = "fallback"
    /\ Len(probed) - 1 < Len(FallbackCommandsOf(config))
    /\ LET fallbackCmd == FallbackCommandsOf(config)[Len(probed)]
       IN /\ probed' = Append(probed, fallbackCmd)
          /\ IF fallbackCmd \in commandsWorking
             THEN /\ probeResult' = fallbackCmd
                  /\ xpc' = "returned"
             ELSE UNCHANGED <<probeResult, xpc>>
    /\ UNCHANGED <<mvars, svars, avars, dvars, tvars, fvars, config, commandsWorking,
                   toolOutput, parsed>>

\* the loop is over: "not available: All command paths failed", return false
ProbeGivesUp ==
    /\ xpc = "fallback"
    /\ Len(probed) - 1 = Len(FallbackCommandsOf(config))
    /\ probeResult' = "false"
    /\ xpc' = "returned"
    /\ UNCHANGED <<mvars, svars, avars, dvars, tvars, fvars, config, commandsWorking,
                   probed, toolOutput, parsed>>

ProbeNext ==
    \/ ProbeRefused
    \/ ProbePrimary
    \/ ProbeFallback
    \/ ProbeGivesUp

SpecProbe == ProbeInit /\ [][ProbeNext]_vars

\* ---- runTruffleHog on the output of a tool run that exits with 0 ----

\* lines of one output
MaxLines == 3

\* a raw secret longer than the preview
LongRaw == [i \in 1..(RawPreviewLen + 10) |-> "s"]

\* lines of an output: one that does not parse, objects without Raw or
\* without RawV2, and two records that have both
ParseLinePool ==
    { InvalidLine,
      ToolLine(<<>>, KeyText, FALSE),
      ToolLine(KeyText, <<>>, FALSE),
      ToolLine(KeyText, KeyText, FALSE),
      ToolLine(LongRaw, LongRaw, TRUE) }

ParseInit ==
    /\ MergeIdle
    /\ ScanIdle
    /\ ArchiveIdle
    /\ DetectIdle
    /\ TempIdle
    /\ DispatchIdle
    /\ config = ShippedConfig
    /\ commandsWorking = {PrimaryCommand}
    /\ probed = <<PrimaryCommand>>
    /\ probeResult = PrimaryCommand
    /\ toolOutput \in SeqsUpTo(ParseLinePool, MaxLines)
    /\ parsed = <<>>
    /\ xpc = "run"

\* runTruffleHog(targetPath, commandPath) after the tool has exited with
\* status 0 and written toolOutput
ParseOutput ==
    /\ xpc = "run"
    /\ parsed' = runTruffleHog("ok", toolOutput)
    /\ xpc' = "parsed"
    /\ UNCHANGED <<mvars, svars, avars, dvars, tvars, fvars, config, commandsWorking,
                   probed, probeResult, toolOutput>>

ParseNext == ParseOutput

SpecParse == ParseInit /\ [][ParseNext]_vars

\* what `git show <commit>` gives for one commit: it fails, or a diff in
\* which one detector of HIGH severity matches
CommitKinds == {"unreadable", "secret"}

\* commit.substring(0, 8) of the k-th listed commit
CommitId(k) == <<"c">> \o NumberToString(k)

\* a finding as scanGitHistory pushes it (it has no file and no line)
HistoryFinding(k, sev) ==
    [type |-> "Detector", commit |-> CommitId(k), severity |-> sev,
     match |-> KeyText \o <<".", ".", ".">>]

\* the commits `git log -n 100` lists, newest first: none (the branch has
\* no commit yet), one, or two of which the newer cannot be read
CommitHistories == {<<>>, <<"secret">>, <<"unreadable", "secret">>}

\* Where the git calls run and what they meet. scanGitHistory passes no cwd
\* to execPromise, so git runs in the working directory of the process:
\*   available  the git command can be started
\*   target     flags.path is the working directory ("cwd"), or a directory
\*              elsewhere that is in no repository ("elsewhere")
\*   cwdRepo    the working directory is in a repository
\*   commits    the commits git log lists there
\* (where no git call can succeed, one target stands for both)
GitEnvs ==
    { e \in [available : BOOLEAN, target : {"cwd", "elsewhere"},
             cwdRepo : BOOLEAN, commits : CommitHistories] :
        /\ ~e.cwdRepo => (e.commits = <<>> /\ e.target = "cwd")
        /\ ~e.available => ~e.cwdRepo }

\* `git log` rejects: git is missing, the working directory is in no
\* repository, or its branch has no commit yet
GitLogFails(env) ==
    ~env.available \/ ~env.cwdRepo \/ env.commits = <<>>

\* for (const commit of commits): the findings from commit k on; a commit
\* whose `git show` fails is skipped by the inner catch
RECURSIVE CommitFindings(_, _)
CommitFindings(commits, k) ==
    IF k > Len(commits) THEN <<>>
    ELSE (IF commits[k] = "secret" THEN <<HistoryFinding(k, "HIGH")>>
          ELSE <<>>)
            \o CommitFindings(commits, k + 1)

\* scanGitHistory(): the findings it returns and whether it printed the
\* warning of its outer catch
scanGitHistory(env) ==
    IF GitLogFails(env) THEN [findings |-> <<>>, warned |-> TRUE]
    ELSE [findings |-> CommitFindings(env.commits, 1), warned |-> FALSE]

Init ==
    /\ MergeIdle
    /\ ArchiveIdle
    /\ DetectIdle
    /\ TempIdle
    /\ ExternalIdle
    /\ DispatchIdle
    /\ flags \in [history : BOOLEAN, ai : BOOLEAN, verbose : BOOLEAN]
    /\ entries \in SeqsUpTo(EntryKinds, MaxEntries)
    /\ walkPos = 1
    /\ pc = "walk"
    /\ scanPromises = <<>>
    /\ settleOrder = <<>>
    /\ findings = <<>>
    /\ extResult = <<>>
    /\ extTool = NoTool
    /\ historyFindings = <<>>
    /\ gitRun = NoGit
    /\ printed = "nothing"
    /\ exitCode = -1

AtEntry(kinds) ==
    /\ pc = "walk"
    /\ walkPos <= Len(entries)
    /\ entries[walkPos] \in kinds

\* walk: `continue` on an ignored name, recursion into a directory, or a file
\* that is neither an archive nor scannable
WalkSkip ==
    /\ AtEntry({"ignored", "dir", "other"})
    /\ walkPos' = walkPos + 1
    /\ UNCHANGED <<mvars, avars, dvars, tvars, xvars, fvars, flags, entries, pc, scanPromises, settleOrder,
                   findings, extResult, extTool, historyFindings, gitRun, printed, exitCode>>

\* walk: fs.statSync or fs.readdirSync throws; nothing in walk or main
\* catches it, so the promise of main rejects
WalkThrows ==
    /\ AtEntry({"statFails", "dirNoList"})
    /\ pc' = "rejected"
    /\ UNCHANGED <<mvars, avars, dvars, tvars, xvars, fvars, flags, entries, walkPos, scanPromises, settleOrder,
                   findings, extResult, extTool, historyFindings, gitRun, printed, exitCode>>

\* walk: scanPromises.push(scanArchive(fullPath, flags.ai)); the call
\* suspends at its first await
WalkDispatchArchive ==
    /\ AtEntry({"archive"})
    /\ scanPromises' = Append(scanPromises,
          [kind |-> "archive", entry |-> walkPos, state |-> "pending",
           value |-> <<>>])
    /\ walkPos' = walkPos + 1
    /\ UNCHANGED <<mvars, avars, dvars, tvars, xvars, fvars, flags, entries, pc, settleOrder, findings,
                   extResult, extTool, historyFindings, gitRun, printed, exitCode>>

\* walk: scanPromises.push(scanFile(fullPath, flags.ai)); scanFile reads and
\* scans the file synchronously and suspends only for the AI pass; a read
\* error makes it return [] at once
WalkDispatchFile ==
    /\ AtEntry({"scannable"})
    /\ \E readFails \in BOOLEAN, r \in FileResults(walkPos) :
         scanPromises' = Append(scanPromises,
            IF readFails
            THEN [kind |-> "file", entry |-> walkPos, state |-> "fulfilled",
                  value |-> <<>>]
            ELSE [kind |-> "file", entry |-> walkPos,
                  state |-> IF flags.ai THEN "pending" ELSE "fulfilled",
                  value |-> r])
    /\ walkPos' = walkPos + 1
    /\ UNCHANGED <<mvars, avars, dvars, tvars, xvars, fvars, flags, entries, pc, settleOrder, findings,
                   extResult, extTool, historyFindings, gitRun, printed, exitCode>>

\* walk(flags.path) returns; main reaches `await Promise.all(scanPromises)`
WalkReturns ==
    /\ pc = "walk"
    /\ walkPos > Len(entries)
    /\ pc' = "join"
    /\ UNCHANGED <<mvars, avars, dvars, tvars, xvars, fvars, flags, entries, walkPos, scanPromises, settleOrder,
                   findings, extResult, extTool, historyFindings, gitRun, printed, exitCode>>

\* a suspended scanArchive call returns its findings
SettleArchive(t) ==
    /\ pc \in {"join", "rejected"}
    /\ scanPromises[t].state = "pending"
    /\ scanPromises[t].kind = "archive"
    /\ \E r \in ArchiveResults(scanPromises[t].entry) :
         scanPromises' = [scanPromises EXCEPT ![t].state = "fulfilled",
                                              ![t].value = r]
    /\ settleOrder' = Append(settleOrder, t)
    /\ UNCHANGED <<mvars, avars, dvars, tvars, xvars, fvars, flags, entries, walkPos, pc, findings, extResult, extTool,
                   historyFindings, gitRun, printed, exitCode>>

\* a scanFile call suspended in checkWithOllama resumes, adds the AI
\* findings (none when the collaborator fails) and returns
SettleFile(t) ==
    /\ pc \in {"join", "rejected"}
    /\ scanPromises[t].state = "pending"
    /\ scanPromises[t].kind = "file"
    /\ \E ai \in AIResults(scanPromises[t].entry) :
         scanPromises' = [scanPromises EXCEPT ![t].state = "fulfilled",
                                              ![t].value = @ \o ai]
    /\ settleOrder' = Append(settleOrder, t)
    /\ UNCHANGED <<mvars, avars, dvars, tvars, xvars, fvars, flags, entries, walkPos, pc, findings, extResult, extTool,
                   historyFindings, gitRun, printed, exitCode>>

\* A listener of the extraction of a suspended scanArchive call throws:
\* extractZip calls fs.mkdirSync and fs.createWriteStream inside its 'entry'
\* listener, outside every try block and outside the promise executor (for
\* instance a file entry a followed by an entry a/b makes mkdirSync fail).
\* The exception is uncaught: the process ends with status 1, the promise
\* of the call is never settled and nothing more is printed.
ArchiveListenerThrows(t) ==
    /\ pc \in {"join", "rejected"}
    /\ scanPromises[t].state = "pending"
    /\ scanPromises[t].kind = "archive"
    /\ pc' = "crashed"
    /\ exitCode' = 1
    /\ UNCHANGED <<mvars, avars, dvars, tvars, xvars, fvars, flags, entries, walkPos, scanPromises,
                   settleOrder, findings, extResult, extTool, historyFindings,
                   gitRun, printed>>

AnySettled(ps) ==
    ps = <<>> \/ \E t \in 1..Len(ps) : ps[t].state = "fulfilled"

\* Promise.all(scanPromises) is fulfilled: every promise is
AllSettled(ps) == \A t \in 1..Len(ps) : ps[t].state = "fulfilled"

\* for (const fileFindings of allFindings) findings.push(...fileFindings)
RECURSIVE Flatten(_)
Flatten(ps) ==
    IF ps = <<>> THEN <<>> ELSE Head(ps).value \o Flatten(Tail(ps))

\* main resumes after the join and collects the results in dispatch order
Join ==
    /\ pc = "join"
    /\ AllSettled(scanPromises)
    /\ findings' = Flatten(scanPromises)
    /\ pc' = "external"
    /\ UNCHANGED <<mvars, avars, dvars, tvars, xvars, fvars, flags, entries, walkPos, scanPromises, settleOrder,
                   extResult, extTool, historyFindings, gitRun, printed, exitCode>>

\* await runExternalScans(...): the availability probe, then the tool run
\* when a command works
ExternalScan ==
    /\ pc = "external"
    /\ \E working \in SUBSET {PrimaryCommand}, run \in ToolRuns,
          stdout \in ToolOutputs :
         /\ extTool' = [working |-> working,
                        run |-> IF checkExternalTool(working) = "false"
                                THEN "notRun" ELSE run]
         /\ extResult' = runExternalScans(working, run, stdout)
    /\ pc' = "merge"
    /\ UNCHANGED <<mvars, avars, dvars, tvars, xvars, fvars, flags, entries, walkPos, scanPromises, settleOrder,
                   findings, historyFindings, gitRun, printed, exitCode>>

\* findings is replaced by mergeFindingsWithExternal(findings, externalFindings)
MergeExternal ==
    /\ pc = "merge"
    /\ findings' = mergeFindingsWithExternal(findings, extResult)
    /\ pc' = IF flags.history THEN "history" ELSE "report"
    /\ UNCHANGED <<mvars, avars, dvars, tvars, xvars, fvars, flags, entries, walkPos, scanPromises, settleOrder,
                   extResult, extTool, historyFindings, gitRun, printed, exitCode>>

\* if (flags.history): await scanGitHistory(); its findings are printed and
\* not added to findings
ScanHistory ==
    /\ pc = "history"
    /\ \E env \in GitEnvs :
         LET r == scanGitHistory(env)
         IN /\ historyFindings' = r.findings
            /\ gitRun' = [called |-> TRUE, env |-> env, warned |-> r.warned]
    /\ pc' = "report"
    /\ UNCHANGED <<mvars, avars, dvars, tvars, xvars, fvars, flags, entries, walkPos, scanPromises, settleOrder,
                   findings, extResult, extTool, printed, exitCode>>

HasSevere(fs) ==
    \E k \in 1..Len(fs) : fs[k].severity \in {"CRITICAL", "HIGH"}

\* the exit status of the result display when findings is not empty:
\* process.exit(1) on a CRITICAL or HIGH finding, else main returns and the
\* process ends with status 0
SummaryExitCode(fs) == IF HasSevere(fs) THEN 1 ELSE 0

\* findings.length === 0: the no-secrets line and process.exit(0)
ReportNoSecrets ==
    /\ pc = "report"
    /\ findings = <<>>
    /\ printed' = "noSecrets"
    /\ exitCode' = 0
    /\ pc' = "exited"
    /\ UNCHANGED <<mvars, avars, dvars, tvars, xvars, fvars, flags, entries, walkPos, scanPromises, settleOrder,
                   findings, extResult, extTool, historyFindings, gitRun>>

\* the per-severity summary and the exit status
ReportSummary ==
    /\ pc = "report"
    /\ findings # <<>>
    /\ printed' = "summary"
    /\ exitCode' = SummaryExitCode(findings)
    /\ pc' = "exited"
    /\ UNCHANGED <<mvars, avars, dvars, tvars, xvars, fvars, flags, entries, walkPos, scanPromises, settleOrder,
                   findings, extResult, extTool, historyFindings, gitRun>>

\* main().catch(console.error): the rejection is printed and the process
\* ends with status 0 once no dispatched scan is pending any more
ExitAfterRejection ==
    /\ pc = "rejected"
    /\ AllSettled(scanPromises)
    /\ exitCode' = 0
    /\ pc' = "exited"
    /\ UNCHANGED <<mvars, avars, dvars, tvars, xvars, fvars, flags, entries, walkPos, scanPromises, settleOrder,
                   findings, extResult, extTool, historyFindings, gitRun, printed>>

Next ==
    \/ WalkSkip
    \/ WalkThrows
    \/ WalkDispatchArchive
    \/ WalkDispatchFile
    \/ WalkReturns
    \/ \E t \in 1..Len(scanPromises) : SettleArchive(t)
    \/ \E t \in 1..Len(scanPromises) : SettleFile(t)
    \/ \E t \in 1..Len(scanPromises) : ArchiveListenerThrows(t)
    \/ Join
    \/ ExternalScan
    \/ MergeExternal
    \/ ScanHistory
    \/ ReportNoSecrets
    \/ ReportSummary
    \/ ExitAfterRejection

Spec == Init /\ [][Next]_vars

----------------------------------------------------------------------------
(* One archive job: scanArchive and extractArchive                         *)

\* ARCHIVE_CONFIG.maxExtractSize
maxExtractSize == 100 * 1024 * 1024

\* ARCHIVE_CONFIG.maxDepth
maxDepth == 3

\* entries of one archive
MaxArchiveEntries == 2

\* archives one job hands to a format extractor
MaxExtractions == 4

\* path.extname of the archive, lower-cased
Extensions == {".zip", ".tar", ".7z", ".gz"}

\* uncompressed sizes of archive entries: more than half the ceiling (two
\* such entries exceed it together), and more than the ceiling
EntrySizes == {(maxExtractSize \div 2) + 1, maxExtractSize + 1}

\* an entry is a scannable file with one secret ("secret"), a nested archive
\* file ("archive"), both of the smaller size, or a scannable file without
\* a secret that is larger than the ceiling ("plain")
ArchiveEntries ==
    { e \in [kind : {"plain", "secret", "archive"}, size : EntrySizes] :
        (e.kind = "plain") <=> (e.size > maxExtractSize) }

\* the possible contents of an archive; a single-stream file holds one file
ArchiveContents(ext) ==
    IF ext = ".gz" THEN [1..1 -> ArchiveEntries]
    ELSE SeqsUpTo(ArchiveEntries, MaxArchiveEntries)

\* when an extractor meets an error: never (0), on opening the archive or
\* loading its library (-1), or while it handles entry k of the content
Faults(content) == {-1, 0} \cup 1..Len(content)

RECURSIVE SumSizes(_)
SumSizes(es) == IF es = <<>> THEN 0 ELSE Head(es).size + SumSizes(Tail(es))

RECURSIVE CountKind(_, _)
CountKind(es, kind) ==
    IF es = <<>> THEN 0
    ELSE (IF Head(es).kind = kind THEN 1 ELSE 0) + CountKind(Tail(es), kind)

\* the outcome of a format extractor: ok (resolved) or not (rejected), the
\* size it resolved with, and the entries it wrote into the directory
Outcome(ok, size, written) == [ok |-> ok, size |-> size, written |-> written]

\* extractZip, from entry k on
RECURSIVE ZipEntries(_, _, _, _, _)
ZipEntries(content, k, fault, size, written) ==
    IF k > Len(content) THEN Outcome(TRUE, size, written)
    ELSE IF content[k].size > maxExtractSize - size
         THEN Outcome(FALSE, size, written)
    ELSE IF fault = k THEN Outcome(FALSE, size, written)
    ELSE ZipEntries(content, k + 1, fault, size + content[k].size,
                    Append(written, content[k]))

extractZip(content, fault) ==
    IF fault = -1 THEN Outcome(FALSE, 0, <<>>)
    ELSE ZipEntries(content, 1, fault, 0, <<>>)

\* extractTar, from entry k on: the filter drops an entry larger than the
\* ceiling; the size is not tracked and 0 is resolved
RECURSIVE TarEntries(_, _, _, _)
TarEntries(content, k, fault, written) ==
    IF k > Len(content) THEN Outcome(TRUE, 0, written)
    ELSE IF fault = k THEN Outcome(FALSE, 0, written)
    ELSE TarEntries(content, k + 1, fault,
                    IF content[k].size <= maxExtractSize
                    THEN Append(written, content[k]) ELSE written)

extractTar(content, fault) ==
    IF fault = -1 THEN Outcome(FALSE, 0, <<>>)
    ELSE TarEntries(content, 1, fault, <<>>)

\* extractWithSystemCommand: the command extracts everything or fails; the
\* size is not tracked
extractWithSystemCommand(content, fault) ==
    IF fault # 0 THEN Outcome(FALSE, 0, <<>>)
    ELSE Outcome(TRUE, 0, content)

\* extract7z, from entry k on: the size of an entry is added when the stream
\* reports the extracted file; a stream error falls back to the system
\* command, which runs with or without success
RECURSIVE SevenZipEntries(_, _, _, _, _, _)
SevenZipEntries(content, k, fault, sysFault, size, written) ==
    IF k > Len(content) THEN Outcome(TRUE, size, written)
    ELSE IF fault = k
         THEN LET sys == extractWithSystemCommand(content, sysFault) IN
              Outcome(sys.ok, sys.size, IF sys.ok THEN sys.written ELSE written)
    ELSE IF size + content[k].size > maxExtractSize
         THEN Outcome(FALSE, size + content[k].size, Append(written, content[k]))
    ELSE SevenZipEntries(content, k + 1, fault, sysFault,
                         size + content[k].size, Append(written, content[k]))

extract7z(content, fault, sysFault) ==
    IF fault = -1 THEN Outcome(FALSE, 0, <<>>)
    ELSE SevenZipEntries(content, 1, fault, sysFault, 0, <<>>)

\* extractArchive: the extraction method chosen by the extension
RunExtractor(ext, content, fault, sysFault) ==
    IF ext \in {".zip", ".jar", ".war", ".ear"} THEN extractZip(content, fault)
    ELSE IF ext \in {".tar", ".tgz", ".tbz2", ".txz"} THEN extractTar(content, fault)
    ELSE IF ext \in {".7z", ".rar"} THEN extract7z(content, fault, sysFault)
    ELSE extractWithSystemCommand(content, fault)

DepthAbove(depth) == depth > maxDepth

\* if (depth >= ARCHIVE_CONFIG.maxDepth)
DepthExceeded(depth) == depth >= maxDepth

RemoveOnSuccessOnly(exists, rmFails, threw) ==
    IF exists /\ ~rmFails /\ ~threw THEN FALSE ELSE exists

\* the finally block of scanArchive: whether the temporary directory still
\* exists after it; fs.rmSync may throw, which is caught and logged
RemoveTempDir(exists, rmFails, threw) ==
    IF exists /\ ~rmFails THEN FALSE ELSE exists

\* the findings of the extracted tree, with the archive context added
ExtractedFindings(n) ==
    [k \in 1..n |->
       InternalFinding(<<EntryPath(1) \o <<" ", ">", " ", "a">> \o NumberToString(k), 1>>,
                       KeyText)]

\* no format extractor ran in the step
NoRun == [ran |-> FALSE]

ArchiveInit ==
    /\ MergeIdle
    /\ ScanIdle
    /\ DetectIdle
    /\ TempIdle
    /\ ExternalIdle
    /\ DispatchIdle
    /\ apc = "start"
    /\ stack = <<>>
    /\ tempExists = FALSE
    /\ nestedDirs = 0
    /\ bytesOnDisk = 0
    /\ secretsOnDisk = 0
    /\ extractedSize = 0
    /\ runs = 0
    /\ lastRun = [ran |-> FALSE]
    /\ rejectedDepths = {}
    /\ alog = {}
    /\ aresult = <<>>

Top == stack[Len(stack)]

Entering ==
    /\ apc = "extracting"
    /\ stack # <<>>
    /\ Top.phase = "enter"

Looping ==
    /\ apc = "extracting"
    /\ stack # <<>>
    /\ Top.phase = "loop"

\* the stack after the innermost n calls have returned, and where the job is
Return(n) ==
    /\ stack' = SubSeq(stack, 1, Len(stack) - n)
    /\ apc' = IF Len(stack) = n THEN "scan" ELSE "extracting"

\* archives still to be handed to an extractor by the calls on the stack st
RECURSIVE Pending(_)
Pending(st) ==
    IF st = <<>> THEN 0
    ELSE Pending(SubSeq(st, 1, Len(st) - 1))
         + (LET f == st[Len(st)] IN
            IF f.phase = "enter"
            THEN (IF DepthExceeded(f.depth) THEN 0 ELSE 1)
            ELSE (IF DepthExceeded(f.depth + 1) THEN 0 ELSE f.todo))

\* scanArchive is called: the temporary directory is named and
\* extractArchive(archivePath, tempDir) starts at depth 0
ScanArchiveCall ==
    /\ apc = "start"
    /\ apc' = "extracting"
    /\ stack' = <<[depth |-> 0, phase |-> "enter", todo |-> 0]>>
    /\ lastRun' = NoRun
    /\ UNCHANGED <<mvars, svars, dvars, tvars, xvars, fvars, tempExists, nestedDirs, bytesOnDisk,
                   secretsOnDisk, extractedSize, runs, rejectedDepths,
                   alog, aresult>>

\* extractArchive at depth >= maxDepth: the warning, and 0 is returned
ExtractSkipsDepth ==
    /\ Entering
    /\ DepthExceeded(Top.depth)
    /\ alog' = alog \cup {"depthWarning"}
    /\ Return(1)
    /\ lastRun' = NoRun
    /\ UNCHANGED <<mvars, svars, dvars, tvars, xvars, fvars, tempExists, nestedDirs, bytesOnDisk,
                   secretsOnDisk, extractedSize, runs, rejectedDepths,
                   aresult>>

\* fs.mkdirSync(extractDir) throws, outside the try block: a nested call
\* rejects into the catch block of its caller, which logs and returns 0; the
\* call at depth 0 rejects into the catch and finally blocks of scanArchive
ExtractMkdirThrows ==
    /\ Entering
    /\ ~DepthExceeded(Top.depth)
    /\ IF Len(stack) = 1
       THEN /\ stack' = <<>>
            /\ apc' = "done"
            /\ aresult' = <<>>
            /\ alog' = alog \cup {"scanError"}
            /\ UNCHANGED rejectedDepths
       ELSE /\ Return(2)
            /\ alog' = alog \cup {"extractFailed"}
            /\ UNCHANGED rejectedDepths
            /\ UNCHANGED aresult
    /\ extractedSize' = IF Len(stack) = 2 THEN 0 ELSE extractedSize
    /\ lastRun' = NoRun
    /\ UNCHANGED <<mvars, svars, dvars, tvars, xvars, fvars, tempExists, nestedDirs, bytesOnDisk,
                   secretsOnDisk, runs>>

\* extractArchive below maxDepth: the directory is made and the extractor of
\* the extension runs; on success the extracted files are listed, on a
\* rejection the failure is logged and 0 is returned
ExtractRuns ==
    /\ Entering
    /\ ~DepthExceeded(Top.depth)
    /\ \E ext \in Extensions :
       \E content \in ArchiveContents(ext) :
       \E fault \in Faults(content) :
       \E sysFault \in (IF ext \in {".7z", ".rar"} /\ fault > 0 THEN {-1, 0} ELSE {0}) :
         LET r == RunExtractor(ext, content, fault, sysFault)
             d == Top.depth
             loop == [depth |-> d, phase |-> "loop",
                      todo |-> CountKind(r.written, "archive")]
             st == IF r.ok
                   THEN [stack EXCEPT ![Len(stack)] = loop]
                   ELSE SubSeq(stack, 1, Len(stack) - 1)
         IN
         /\ runs + 1 + Pending(st) <= MaxExtractions
         /\ stack' = st
         /\ apc' = IF st = <<>> THEN "scan" ELSE "extracting"
         /\ runs' = runs + 1
         /\ tempExists' = TRUE
         /\ nestedDirs' = nestedDirs + (IF d > 0 THEN 1 ELSE 0)
         /\ bytesOnDisk' = bytesOnDisk + SumSizes(r.written)
         /\ secretsOnDisk' = secretsOnDisk + CountKind(r.written, "secret")
         /\ lastRun' = [ran |-> TRUE, ext |-> ext, depth |-> d, ok |-> r.ok,
                        total |-> SumSizes(content)]
         /\ extractedSize' = IF d = 0 THEN (IF r.ok THEN r.size ELSE 0)
                             ELSE extractedSize
         /\ rejectedDepths' = IF r.ok THEN rejectedDepths ELSE rejectedDepths \cup {d}
         /\ alog' = IF r.ok THEN alog ELSE alog \cup {"extractFailed"}
    /\ UNCHANGED <<mvars, svars, dvars, tvars, xvars, fvars, aresult>>

\* the loop over the extracted files meets a nested archive:
\* await extractArchive(fullPath, nestedExtractDir, depth + 1)
LoopExtractsNested ==
    /\ Looping
    /\ Top.todo > 0
    /\ stack' = Append([stack EXCEPT ![Len(stack)].todo = @ - 1],
                       [depth |-> Top.depth + 1, phase |-> "enter", todo |-> 0])
    /\ lastRun' = NoRun
    /\ UNCHANGED <<mvars, svars, dvars, tvars, xvars, fvars, apc, tempExists, nestedDirs, bytesOnDisk,
                   secretsOnDisk, extractedSize, runs, rejectedDepths,
                   alog, aresult>>

\* fs.readdirSync or fs.statSync throws in the loop over the extracted
\* files: caught, logged, 0 is returned
LoopThrows ==
    /\ Looping
    /\ Return(1)
    /\ alog' = alog \cup {"extractFailed"}
    /\ extractedSize' = IF Len(stack) = 1 THEN 0 ELSE extractedSize
    /\ lastRun' = NoRun
    /\ UNCHANGED <<mvars, svars, dvars, tvars, xvars, fvars, tempExists, nestedDirs, bytesOnDisk,
                   secretsOnDisk, runs, rejectedDepths, aresult>>

\* the loop is over: return extractedSize
ExtractReturns ==
    /\ Looping
    /\ Top.todo = 0
    /\ Return(1)
    /\ lastRun' = NoRun
    /\ UNCHANGED <<mvars, svars, dvars, tvars, xvars, fvars, tempExists, nestedDirs, bytesOnDisk,
                   secretsOnDisk, extractedSize, runs, rejectedDepths,
                   alog, aresult>>

\* scanArchive after extractArchive returned: the early return, or
\* scanDirectoryRecursive over the temporary directory (whose walk may
\* throw, which is caught and logged), then the finally block
ScanExtracted ==
    /\ apc = "scan"
    /\ \E walkThrows \in BOOLEAN, rmFails \in BOOLEAN :
         LET early == extractedSize = 0 /\ ~tempExists
             threw == ~early /\ walkThrows
             remains == RemoveTempDir(tempExists, rmFails, threw)
         IN
         /\ aresult' = IF early \/ threw THEN <<>>
                       ELSE ExtractedFindings(secretsOnDisk)
         /\ tempExists' = remains
         /\ nestedDirs' = IF remains THEN nestedDirs ELSE 0
         /\ bytesOnDisk' = IF remains THEN bytesOnDisk ELSE 0
         /\ secretsOnDisk' = IF remains THEN secretsOnDisk ELSE 0
         /\ alog' = alog \cup (IF threw THEN {"scanError"} ELSE {})
                         \cup (IF tempExists /\ rmFails
                               THEN {"cleanupWarning"} ELSE {})
    /\ apc' = "done"
    /\ lastRun' = NoRun
    /\ UNCHANGED <<mvars, svars, dvars, tvars, xvars, fvars, stack, extractedSize, runs, rejectedDepths>>

ArchiveNext ==
    \/ ScanArchiveCall
    \/ ExtractSkipsDepth
    \/ ExtractMkdirThrows
    \/ ExtractRuns
    \/ LoopExtractsNested
    \/ LoopThrows
    \/ ExtractReturns
    \/ ScanExtracted

SpecArchive == ArchiveInit /\ [][ArchiveNext]_vars

----------------------------------------------------------------------------
(* Patterns: the regular expressions of the detectors                      *)

\* the characters of a string
SetOf(s) == {s[i] : i \in 1..Len(s)}

UpperSet == SetOf(UpperChars)
LowerSet == SetOf(LowerChars)
DigitSet == SetOf(DigitChars)
AlnumSet == UpperSet \cup LowerSet \cup DigitSet

\* [0-9a-fA-F]
HexSet == DigitSet \cup {"a", "b", "c", "d", "e", "f"}
                   \cup {"A", "B", "C", "D", "E", "F"}

\* \s
WhiteSpace == {" ", "\n", "\t"}

\* One alternative of a pattern: a literal prefix, then between least and
\* most characters of a class (no upper limit when not bounded), taken
\* greedily, then at most tailMost characters of the class tail.
Exactly(prefix, class, n) ==
    [prefix |-> prefix, class |-> class, least |-> n, bounded |-> TRUE,
     most |-> n, tail |-> {}, tailMost |-> 0]

AtLeast(prefix, class, n) ==
    [prefix |-> prefix, class |-> class, least |-> n, bounded |-> FALSE,
     most |-> n, tail |-> {}, tailMost |-> 0]

Between(prefix, class, n, m) ==
    [prefix |-> prefix, class |-> class, least |-> n, bounded |-> TRUE,
     most |-> m, tail |-> {}, tailMost |-> 0]

\* the least element of a set of numbers
Least(S) == CHOOSE x \in S : \A y \in S : x <= y

\* how many characters of s from position p (counted from 0) are in the
\* class, counting at most limit of them
ClassRun(s, p, class, limit) ==
    Least({k \in 0..limit : \/ k = limit
                            \/ p + k >= Len(s)
                            \/ s[p + k + 1] \notin class})

\* s holds the text t at position p
StartsWithAt(s, p, t) ==
    /\ p + Len(t) <= Len(s)
    /\ SubSeq(s, p + 1, p + Len(t)) = t

\* length of the match of one alternative at position p, 0 when it does not
\* match there (every pattern here matches at least one character)
AltLength(s, p, alt) ==
    IF ~StartsWithAt(s, p, alt.prefix) THEN 0
    ELSE LET q == p + Len(alt.prefix)
             n == ClassRun(s, q, alt.class,
                           IF alt.bounded THEN alt.most ELSE Len(s))
         IN IF n < alt.least THEN 0
            ELSE Len(alt.prefix) + n
                    + ClassRun(s, q + n, alt.tail, alt.tailMost)

\* length of the match of a pattern (its alternatives in order) at position p
RegexLength(s, p, alts) ==
    LET hits == {k \in 1..Len(alts) : AltLength(s, p, alts[k]) > 0}
    IN IF hits = {} THEN 0
       ELSE AltLength(s, p, alts[Least(hits)])

NoMatch == [index |-> 0 - 1, length |-> 0]

\* the leftmost match at or after position from
Exec(alts, s, from) ==
    LET hits == {p \in from..(Len(s) - 1) : RegexLength(s, p, alts) > 0}
    IN IF hits = {} THEN NoMatch
       ELSE [index |-> Least(hits),
             length |-> RegexLength(s, Least(hits), alts)]

\* String.prototype.matchAll(pattern): the matcher is a copy of the pattern
\* that starts at the lastIndex the pattern has at the call; the pattern
\* itself is left as it is
RECURSIVE MatchAll(_, _, _)
MatchAll(alts, s, from) ==
    LET m == Exec(alts, s, from)
    IN IF m = NoMatch THEN <<>>
       ELSE <<m>> \o MatchAll(alts, s, m.index + m.length)

\* RegExp.prototype.test on a pattern with the g flag: the search starts at
\* lastIndex; a match moves lastIndex to its end, a failure resets it to 0
Test(alts, s, from) ==
    LET m == Exec(alts, s, from)
    IN IF m = NoMatch THEN [found |-> FALSE, lastIndex |-> 0]
       ELSE [found |-> TRUE, lastIndex |-> m.index + m.length]

\* the text of a match
MatchText(s, m) == SubSeq(s, m.index + 1, m.index + m.length)

----------------------------------------------------------------------------
(* The detector registry API_KEY_PATTERNS                                  *)

\* The detectors whose pattern is a literal prefix followed by a run of one
\* character class, in registry order. All of them carry the g flag and
\* none has a context requirement.
API_KEY_PATTERNS == <<
    [name |-> "AWS Access Key ID", severity |-> "CRITICAL", context |-> <<>>,
     pattern |-> <<Exactly(<<"A", "3", "T">>, UpperSet \cup DigitSet, 17),
                   Exactly(<<"A", "K", "I", "A">>, UpperSet \cup DigitSet, 16),
                   Exactly(<<"A", "G", "P", "A">>, UpperSet \cup DigitSet, 16),
                   Exactly(<<"A", "I", "D", "A">>, UpperSet \cup DigitSet, 16),
                   Exactly(<<"A", "R", "O", "A">>, UpperSet \cup DigitSet, 16),
                   Exactly(<<"A", "I", "P", "A">>, UpperSet \cup DigitSet, 16),
                   Exactly(<<"A", "N", "P", "A">>, UpperSet \cup DigitSet, 16),
                   Exactly(<<"A", "N", "V", "A">>, UpperSet \cup DigitSet, 16),
                   Exactly(<<"A", "S", "I", "A">>, UpperSet \cup DigitSet, 16)>>],
    [name |-> "Google API Key", severity |-> "HIGH", context |-> <<>>,
     pattern |-> <<Exactly(<<"A", "I", "z", "a">>, AlnumSet \cup {"_", "-"}, 35)>>],
    [name |-> "GitHub Personal Access Token", severity |-> "CRITICAL",
     context |-> <<>>,
     pattern |-> <<Exactly(<<"g", "h", "p", "_">>, AlnumSet, 36)>>],
    [name |-> "GitHub OAuth Access Token", severity |-> "CRITICAL",
     context |-> <<>>,
     pattern |-> <<Exactly(<<"g", "h", "o", "_">>, AlnumSet, 36)>>],
    [name |-> "GitHub App Token", severity |-> "CRITICAL", context |-> <<>>,
     pattern |-> <<Exactly(<<"g", "h", "s", "_">>, AlnumSet, 36)>>],
    [name |-> "GitHub Refresh Token", severity |-> "HIGH", context |-> <<>>,
     pattern |-> <<Exactly(<<"g", "h", "r", "_">>, AlnumSet, 36)>>],
    [name |-> "Stripe API Key", severity |-> "CRITICAL", context |-> <<>>,
     pattern |-> <<Exactly(<<"r", "k", "_", "t", "e", "s", "t", "_">>, AlnumSet, 24),
                   Exactly(<<"r", "k", "_", "l", "i", "v", "e", "_">>, AlnumSet, 24),
                   Exactly(<<"s", "k", "_", "t", "e", "s", "t", "_">>, AlnumSet, 24),
                   Exactly(<<"s", "k", "_", "l", "i", "v", "e", "_">>, AlnumSet, 24)>>],
    [name |-> "Stripe Webhook Secret", severity |-> "HIGH", context |-> <<>>,
     pattern |-> <<AtLeast(<<"w", "h", "s", "e", "c", "_">>, AlnumSet, 32)>>],
    [name |-> "Square Access Token", severity |-> "CRITICAL", context |-> <<>>,
     pattern |-> <<Exactly(<<"s", "q", "0", "a", "t", "p", "-">>, AlnumSet \cup {"_", "-"}, 22),
                   Exactly(<<"s", "q", "0", "a", "p", "p", "-">>, AlnumSet \cup {"_", "-"}, 22)>>],
    [name |-> "Twilio API Key", severity |-> "HIGH", context |-> <<>>,
     pattern |-> <<Exactly(<<"S", "K">>, HexSet, 32)>>],
    [name |-> "Mailgun API Key", severity |-> "MEDIUM", context |-> <<>>,
     pattern |-> <<Exactly(<<"k", "e", "y", "-">>, AlnumSet, 32)>>],
    [name |-> "OpenAI API Key", severity |-> "HIGH", context |-> <<>>,
     pattern |-> <<Exactly(<<"s", "k", "-", "p", "r", "o", "j", "-">>, AlnumSet, 48),
                   Exactly(<<"s", "k", "-">>, AlnumSet, 48)>>],
    [name |-> "Hugging Face Token", severity |-> "MEDIUM", context |-> <<>>,
     pattern |-> <<Exactly(<<"h", "f", "_">>, AlnumSet, 34)>>],
    [name |-> "Facebook Access Token", severity |-> "HIGH", context |-> <<>>,
     pattern |-> <<AtLeast(<<"E", "A", "A">>, AlnumSet, 1)>>],
    [name |-> "Twitter Bearer Token", severity |-> "HIGH", context |-> <<>>,
     pattern |-> <<AtLeast(<<"A", "A", "A">>, AlnumSet \cup {"%"}, 1)>> ] >>

\* The registry of the earlier scanner, in registry order; its AWS Secret Key
\* detector is the one with a context requirement,
\* /aws_secret|aws_secret_access_key/i. The Generic API Key, Secret, Token
\* and Password detectors need a quote character and the Bearer Token
\* detector the word Bearer followed by white space; the contents scanned
\* with this registry hold neither, and these five are left out.
LEGACY_API_KEY_PATTERNS == <<
    [name |-> "Google API Key",
     context |-> <<>>,
     pattern |-> <<Exactly(<<"A", "I", "z", "a">>, AlnumSet \cup {"_", "-"}, 35)>>],
    [name |-> "AWS Access Key ID",
     context |-> <<>>,
     pattern |-> <<Exactly(<<"A", "K", "I", "A">>, UpperSet \cup DigitSet, 16)>>],
    [name |-> "AWS Secret Key",
     context |-> <<<<"a", "w", "s", "_", "s", "e", "c", "r", "e", "t">>, <<"a", "w", "s", "_", "s", "e", "c", "r", "e", "t", "_", "a", "c", "c", "e", "s", "s", "_", "k", "e", "y">>>>,
     pattern |-> <<Exactly(<<>>, AlnumSet \cup {"/", "+", "="}, 40)>>],
    [name |-> "GitHub Personal Access Token",
     context |-> <<>>,
     pattern |-> <<Exactly(<<"g", "h", "p", "_">>, AlnumSet, 36)>>],
    [name |-> "GitHub OAuth Access Token",
     context |-> <<>>,
     pattern |-> <<Exactly(<<"g", "h", "o", "_">>, AlnumSet, 36)>>],
    [name |-> "GitHub App Token",
     context |-> <<>>,
     pattern |-> <<Exactly(<<"g", "h", "s", "_">>, AlnumSet, 36)>>],
    [name |-> "GitHub Refresh Token",
     context |-> <<>>,
     pattern |-> <<Exactly(<<"g", "h", "r", "_">>, AlnumSet, 36)>>],
    [name |-> "Stripe API Key",
     context |-> <<>>,
     pattern |-> <<Exactly(<<"s", "k", "_", "l", "i", "v", "e", "_">>, AlnumSet, 24)>>],
    [name |-> "Stripe Test Key",
     context |-> <<>>,
     pattern |-> <<Exactly(<<"s", "k", "_", "t", "e", "s", "t", "_">>, AlnumSet, 24)>>],
    [name |-> "Stripe Publishable Key",
     context |-> <<>>,
     pattern |-> <<Exactly(<<"p", "k", "_", "l", "i", "v", "e", "_">>, AlnumSet, 24)>>],
    [name |-> "Stripe Test Publishable Key",
     context |-> <<>>,
     pattern |-> <<Exactly(<<"p", "k", "_", "t", "e", "s", "t", "_">>, AlnumSet, 24)>>],
    [name |-> "OpenAI API Key",
     context |-> <<>>,
     pattern |-> <<Exactly(<<"s", "k", "-">>, AlnumSet, 48)>>],
    [name |-> "Slack Token",
     context |-> <<>>,
     pattern |-> <<AtLeast(<<"x", "o", "x", "b", "-">>, AlnumSet \cup {"-"}, 1),
                   AtLeast(<<"x", "o", "x", "a", "-">>, AlnumSet \cup {"-"}, 1),
                   AtLeast(<<"x", "o", "x", "p", "-">>, AlnumSet \cup {"-"}, 1),
                   AtLeast(<<"x", "o", "x", "r", "-">>, AlnumSet \cup {"-"}, 1),
                   AtLeast(<<"x", "o", "x", "s", "-">>, AlnumSet \cup {"-"}, 1)>>],
    [name |-> "RSA Private Key",
     context |-> <<>>,
     pattern |-> <<Exactly(<<"-", "-", "-", "-", "-", "B", "E", "G", "I", "N", " ", "R", "S", "A", " ", "P", "R", "I", "V", "A", "T", "E", " ", "K", "E", "Y", "-", "-", "-", "-", "-">>, {}, 0)>>],
    [name |-> "SSH Private Key",
     context |-> <<>>,
     pattern |-> <<Exactly(<<"-", "-", "-", "-", "-", "B", "E", "G", "I", "N", " ", "O", "P", "E", "N", "S", "S", "H", " ", "P", "R", "I", "V", "A", "T", "E", " ", "K", "E", "Y", "-", "-", "-", "-", "-">>, {}, 0)>>],
    [name |-> "PGP Private Key",
     context |-> <<>>,
     pattern |-> <<Exactly(<<"-", "-", "-", "-", "-", "B", "E", "G", "I", "N", " ", "P", "G", "P", " ", "P", "R", "I", "V", "A", "T", "E", " ", "K", "E", "Y", " ", "B", "L", "O", "C", "K", "-", "-", "-", "-", "-">>, {}, 0)>>] >>

----------------------------------------------------------------------------
(* scanFile: the pattern pass and the entropy pass                         *)

\* characters looked at on each side of a match for its context
ContextWindow == 50

\* characters of a matched text kept in a finding
PreviewLen == 50

Ellipsis == <<".", ".", ".">>

\* const lines = content.substring(0, match.index).split('\n'); lines.length
LineNumber(content, index) ==
    1 + Cardinality({i \in 1..index : content[i] = "\n"})

\* match[0].substring(0, 50) + (match[0].length > 50 ? '...' : '')
Preview(text) ==
    substring0(text, PreviewLen)
        \o (IF Len(text) > PreviewLen THEN Ellipsis ELSE <<>>)

ContextAnywhere(content, m) == content

\* content.substring(contextStart, contextEnd) around the match m
ContextOf(content, m) ==
    LET contextStart == Max(0, m.index - ContextWindow)
        contextEnd == Min(Len(content), m.index + m.length + ContextWindow)
    IN SubSeq(content, contextStart + 1, contextEnd)

\* detector.context.test(context): the context expression is an alternation
\* of keywords with the i flag (and without the g flag: it keeps no state)
ContextTest(keywords, context) ==
    \E k \in 1..Len(keywords) : includes(toLowerCase(context), keywords[k])

\* whether the loop body reaches findings.push for the match m
PassesContext(detector, content, m) ==
    detector.context = <<>>
        \/ ContextTest(detector.context, ContextOf(content, m))

\* the findings one detector adds in the pattern pass; from is the
\* lastIndex its pattern has when matchAll is called
DetectorFindings(detector, from, content, filePath) ==
    LET ms == MatchAll(detector.pattern, content, from)
        kept == SelectSeq(ms, LAMBDA m : PassesContext(detector, content, m))
    IN [k \in 1..Len(kept) |->
          [type |-> detector.name, file |-> filePath,
           line |-> LineNumber(content, kept[k].index),
           match |-> Preview(MatchText(content, kept[k])),
           severity |-> detector.severity]]

\* for (const detector of registry) ..., from detector d on
RECURSIVE PatternPass(_, _, _, _, _)
PatternPass(registry, li, content, filePath, d) ==
    IF d > Len(registry) THEN <<>>
    ELSE DetectorFindings(registry[d], li[d], content, filePath)
            \o PatternPass(registry, li, content, filePath, d + 1)

\* 1000 * log2(k), rounded, for k = 1 .. 128 (a word has at most 128
\* characters)
Log2Milli == <<
    0, 1000, 1585, 2000, 2322, 2585, 2807, 3000, 3170, 3322, 3459, 3585,
    3700, 3807, 3907, 4000, 4087, 4170, 4248, 4322, 4392, 4459, 4524, 4585,
    4644, 4700, 4755, 4807, 4858, 4907, 4954, 5000, 5044, 5087, 5129, 5170,
    5209, 5248, 5285, 5322, 5358, 5392, 5426, 5459, 5492, 5524, 5555, 5585,
    5615, 5644, 5672, 5700, 5728, 5755, 5781, 5807, 5833, 5858, 5883, 5907,
    5931, 5954, 5977, 6000, 6022, 6044, 6066, 6087, 6109, 6129, 6150, 6170,
    6190, 6209, 6229, 6248, 6267, 6285, 6304, 6322, 6340, 6358, 6375, 6392,
    6409, 6426, 6443, 6459, 6476, 6492, 6508, 6524, 6539, 6555, 6570, 6585,
    6600, 6615, 6629, 6644, 6658, 6672, 6687, 6700, 6714, 6728, 6741, 6755,
    6768, 6781, 6794, 6807, 6820, 6833, 6845, 6858, 6870, 6883, 6895, 6907,
    6919, 6931, 6943, 6954, 6966, 6977, 6989, 7000 >>

\* how often the character c occurs in str
Frequency(str, c) == Cardinality({i \in 1..Len(str) : str[i] = c})

RECURSIVE SumOver(_, _)
SumOver(S, f) ==
    IF S = {} THEN 0
    ELSE LET c == CHOOSE x \in S : TRUE IN f[c] + SumOver(S \ {c}, f)

\* 1000 * len * calculateEntropy(str): the sum over the characters of
\* freq * (log2(len) - log2(freq)), in the precision of Log2Milli
EntropyMilliTimesLen(str) ==
    LET chars == SetOf(str)
        term == [c \in chars |->
                   Frequency(str, c)
                     * (Log2Milli[Len(str)] - Log2Milli[Frequency(str, c)])]
    IN SumOver(chars, term)

\* minEntropy = 4.5, times 1000
MinEntropyMilli == 4500

\* minLength = 20
MinLength == 20

EndsWith(s, t) ==
    Len(t) <= Len(s) /\ SubSeq(s, Len(s) - Len(t) + 1, Len(s)) = t

ImageSuffixes ==
    {<<".", "j", "p", "g">>, <<".", "j", "p", "e", "g">>, <<".", "p", "n", "g">>, <<".", "g", "i", "f">>, <<".", "s", "v", "g">>, <<".", "i", "c", "o">>, <<".", "w", "o", "f", "f">>, <<".", "t", "t", "f">>, <<".", "e", "o", "t">>}

Keywords == {<<"t", "r", "u", "e">>, <<"f", "a", "l", "s", "e">>, <<"n", "u", "l", "l">>, <<"u", "n", "d", "e", "f", "i", "n", "e", "d">>}

\* the expressions of falsePositives, in order
PureNumber(str) == str # <<>> /\ SetOf(str) \subseteq DigitSet
HexString(str) == str # <<>> /\ SetOf(str) \subseteq HexSet
FileExtension(str) == \E t \in ImageSuffixes : EndsWith(toLowerCase(str), t)
Keyword(str) == toLowerCase(str) \in Keywords
Url(str) ==
    \/ StartsWithAt(toLowerCase(str), 0, <<"h", "t", "t", "p", ":", "/", "/">>)
    \/ StartsWithAt(toLowerCase(str), 0, <<"h", "t", "t", "p", "s", ":", "/", "/">>)
KebabCase(str) ==
    /\ str # <<>>
    /\ SetOf(str) \subseteq (UpperSet \cup LowerSet \cup {"-"})
    /\ str[1] # "-"
    /\ str[Len(str)] # "-"
    /\ \A i \in 1..(Len(str) - 1) : ~(str[i] = "-" /\ str[i + 1] = "-")

NumberOrHex(str) == PureNumber(str) \/ HexString(str)

FalsePositive(str) ==
    \/ PureNumber(str)
    \/ HexString(str)
    \/ FileExtension(str)
    \/ Keyword(str)
    \/ Url(str)
    \/ KebabCase(str)

AnyLongString(str) == Len(str) >= MinLength

\* isHighEntropyString(str) with the default minLength and minEntropy
isHighEntropyString(str) ==
    IF Len(str) < MinLength THEN FALSE
    ELSE IF FalsePositive(str) THEN FALSE
    ELSE EntropyMilliTimesLen(str) >= MinEntropyMilli * Len(str)

\* content.match(/[a-zA-Z0-9_-]{20,128}/g)
WordPattern == <<Between(<<>>, AlnumSet \cup {"_", "-"}, 20, 128)>>

\* the findings of the entropy pass
EntropyPass(content, filePath) ==
    LET ms == MatchAll(WordPattern, content, 0)
        kept == SelectSeq(ms, LAMBDA m :
                            isHighEntropyString(MatchText(content, m)))
    IN [k \in 1..Len(kept) |->
          [type |-> "High Entropy String", file |-> filePath,
           line |-> NoLine,
           match |-> substring0(MatchText(content, kept[k]), PreviewLen)
                        \o Ellipsis,
           severity |-> "LOW"]]

----------------------------------------------------------------------------
(* scanFile: the base64 pass                                               *)

\* the characters with the codes 32 .. 126 (the grave accent by its name)
AsciiChars == <<
    " ", "!", "\"", "#", "$", "%", "&", "'", "(", ")", "*", "+", ",", "-", ".", "/",
    "0", "1", "2", "3", "4", "5", "6", "7", "8", "9", ":", ";", "<", "=", ">", "?",
    "@", "A", "B", "C", "D", "E", "F", "G", "H", "I", "J", "K", "L", "M", "N", "O",
    "P", "Q", "R", "S", "T", "U", "V", "W", "X", "Y", "Z", "[", "\\", "]", "^", "_",
    "U+0060", "a", "b", "c", "d", "e", "f", "g", "h", "i", "j", "k", "l", "m", "n", "o",
    "p", "q", "r", "s", "t", "u", "v", "w", "x", "y", "z", "{", "|", "}", "~" >>

\* what a byte that is not one of these is shown as in a decoded text
Replacement == "U+FFFD"

IndexOf(seq, c) == CHOOSE i \in 1..Len(seq) : seq[i] = c

\* the code of a character of a text, and the character of a byte
CodeOf(c) == IF c = "\n" THEN 10 ELSE IndexOf(AsciiChars, c) + 31
CharOf(b) ==
    IF b = 10 THEN "\n"
    ELSE IF b >= 32 /\ b <= 126 THEN AsciiChars[b - 31]
    ELSE Replacement

\* the base64 alphabet, by value
Base64Chars == <<
    "A", "B", "C", "D", "E", "F", "G", "H", "I", "J", "K", "L", "M", "N", "O", "P",
    "Q", "R", "S", "T", "U", "V", "W", "X", "Y", "Z", "a", "b", "c", "d", "e", "f",
    "g", "h", "i", "j", "k", "l", "m", "n", "o", "p", "q", "r", "s", "t", "u", "v",
    "w", "x", "y", "z", "0", "1", "2", "3", "4", "5", "6", "7", "8", "9", "+", "/" >>

Base64Set == SetOf(Base64Chars)

\* the bytes of a sequence of 6-bit values: three for each four values, and
\* one or two for the two or three values that are left
RECURSIVE DecodeValues(_)
DecodeValues(vs) ==
    IF Len(vs) >= 4
    THEN LET n == vs[1] * 262144 + vs[2] * 4096 + vs[3] * 64 + vs[4]
         IN <<n \div 65536, (n \div 256) % 256, n % 256>>
               \o DecodeValues(SubSeq(vs, 5, Len(vs)))
    ELSE IF Len(vs) = 3
    THEN LET n == (vs[1] * 4096 + vs[2] * 64 + vs[3]) \div 4
         IN <<n \div 256, n % 256>>
    ELSE IF Len(vs) = 2
    THEN <<(vs[1] * 64 + vs[2]) \div 16>>
    ELSE <<>>

\* Buffer.from(text, 'base64').toString('utf8'); a byte outside 32 .. 126
\* is shown as one replacement character
Base64Decode(text) ==
    LET data == SelectSeq(text, LAMBDA c : c \in Base64Set)
        bytes == DecodeValues([i \in 1..Len(data) |->
                                 IndexOf(Base64Chars, data[i]) - 1])
    IN [i \in 1..Len(bytes) |-> CharOf(bytes[i])]

\* standard base64 of a sequence of bytes, with padding
RECURSIVE EncodeBytes(_)
EncodeBytes(bs) ==
    IF Len(bs) >= 3
    THEN LET n == bs[1] * 65536 + bs[2] * 256 + bs[3]
         IN <<Base64Chars[(n \div 262144) + 1],
              Base64Chars[((n \div 4096) % 64) + 1],
              Base64Chars[((n \div 64) % 64) + 1],
              Base64Chars[(n % 64) + 1]>>
               \o EncodeBytes(SubSeq(bs, 4, Len(bs)))
    ELSE IF Len(bs) = 2
    THEN LET n == (bs[1] * 256 + bs[2]) * 4
         IN <<Base64Chars[(n \div 4096) + 1],
              Base64Chars[((n \div 64) % 64) + 1],
              Base64Chars[(n % 64) + 1], "=">>
    ELSE IF Len(bs) = 1
    THEN LET n == bs[1] * 16
         IN <<Base64Chars[(n \div 64) + 1], Base64Chars[(n % 64) + 1],
              "=", "=">>
    ELSE <<>>

\* the standard base64 encoding of a text of characters 32 .. 126
Base64Encode(str) == EncodeBytes([i \in 1..Len(str) |-> CodeOf(str[i])])

\* /[A-Za-z0-9+/]{40,}={0,2}/g
Base64Pattern ==
    <<[prefix |-> <<>>, class |-> Base64Set, least |-> 40, bounded |-> FALSE,
      most |-> 40, tail |-> {"="}, tailMost |-> 2]>>

\* detector.pattern.test(decoded) for detector d, whose pattern has the
\* lastIndex li[d]
TestDetector(decoded, li, d) == Test(API_KEY_PATTERNS[d].pattern, decoded, li[d])

\* for (const detector of API_KEY_PATTERNS) if (detector.pattern.test(decoded))
\* the findings pushed for one candidate, in registry order (each test reads
\* and writes the lastIndex of its own pattern only)
TestDetectors(decoded, text, li) ==
    LET hits == SelectSeq([d \in 1..Len(API_KEY_PATTERNS) |-> d],
                          LAMBDA d : TestDetector(decoded, li, d).found)
    IN [k \in 1..Len(hits) |->
          [type |-> "Base64 Encoded " \o API_KEY_PATTERNS[hits[k]].name,
           match |-> substring0(text, PreviewLen) \o Ellipsis,
           decoded |-> substring0(decoded, PreviewLen) \o Ellipsis,
           severity |-> API_KEY_PATTERNS[hits[k]].severity]]

\* the lastIndex of every pattern after the tests of one candidate
TestedIndex(decoded, li) ==
    [d \in 1..Len(API_KEY_PATTERNS) |-> TestDetector(decoded, li, d).lastIndex]

\* the lastIndex of every pattern after the first k candidates
RECURSIVE IndexAfter(_, _, _, _)
IndexAfter(ms, content, li, k) ==
    IF k = 0 THEN li
    ELSE TestedIndex(Base64Decode(MatchText(content, ms[k])),
                     IndexAfter(ms, content, li, k - 1))

\* for (const match of matches) ...: the findings of candidates 1 .. k
RECURSIVE Base64Candidates(_, _, _, _)
Base64Candidates(ms, content, li, k) ==
    IF k = 0 THEN <<>>
    ELSE Base64Candidates(ms, content, li, k - 1)
            \o TestDetectors(Base64Decode(MatchText(content, ms[k])),
                              MatchText(content, ms[k]),
                              IndexAfter(ms, content, li, k - 1))

\* the matches of base64Pattern in content
Base64Matches(content) == MatchAll(Base64Pattern, content, 0)

\* detectBase64Secrets(content), called when the patterns have lastIndex li:
\* its findings
detectBase64Secrets(content, li) ==
    Base64Candidates(Base64Matches(content), content, li,
                     Len(Base64Matches(content)))

\* the lastIndex of every pattern when detectBase64Secrets(content) returns
IndexAfterBase64(content, li) ==
    IndexAfter(Base64Matches(content), content, li,
               Len(Base64Matches(content)))

----------------------------------------------------------------------------
(* scanFile: the multi-line pass                                           *)

\* [A-Z\s]
UpperOrSpace == UpperSet \cup WhiteSpace

\* /-----<word>\s+[A-Z\s]+PRIVATE KEY[A-Z\s]*-----/ matches somewhere: after
\* the opening text come at least two characters of [A-Z\s], the first of
\* them white space, then PRIVATE KEY, then characters of [A-Z\s], then the
\* closing dashes
PrivateKeyMarker(content, word) ==
    LET open == <<"-", "-", "-", "-", "-">> \o word
    IN \E p \in 0..Len(content) :
         /\ StartsWithAt(content, p, open)
         /\ LET a == p + Len(open) IN
            /\ a + 1 <= Len(content)
            /\ content[a + 1] \in WhiteSpace
            /\ \E j \in (a + 2)..Len(content) :
                 /\ StartsWithAt(content, j, <<"P", "R", "I", "V", "A", "T", "E", " ", "K", "E", "Y">>)
                 /\ \A i \in (a + 1)..j : content[i] \in UpperOrSpace
                 /\ \E k \in (j + 11)..Len(content) :
                      /\ StartsWithAt(content, k, <<"-", "-", "-", "-", "-">>)
                      /\ \A i \in (j + 12)..k : content[i] \in UpperOrSpace

\* either certificate marker is somewhere in the content
AnyCertificateMarker(content, word) ==
    includes(content, <<"C", "E", "R", "T", "I", "F", "I", "C", "A", "T", "E", "-", "-", "-", "-", "-">>)

\* /-----<word>\s+CERTIFICATE-----/ matches somewhere
CertificateMarker(content, word) ==
    LET open == <<"-", "-", "-", "-", "-">> \o word
    IN \E p \in 0..Len(content) :
         LET a == p + Len(open)
             n == ClassRun(content, a, WhiteSpace, Len(content))
         IN /\ StartsWithAt(content, p, open)
            /\ n >= 1
            /\ StartsWithAt(content, a + n, <<"C", "E", "R", "T", "I", "F", "I", "C", "A", "T", "E", "-", "-", "-", "-", "-">>)

\* the position after the literal t at position p, -1 when it is not there
\* (or p is already -1)
Lit(s, p, t) ==
    IF p >= 0 /\ StartsWithAt(s, p, t) THEN p + Len(t) ELSE 0 - 1

\* the position after \s* at position p
SkipSpace(s, p) ==
    IF p < 0 THEN p ELSE p + ClassRun(s, p, WhiteSpace, Len(s))

\* how many characters from position p on are not the character c
RunUntil(s, p, c) ==
    Least({k \in 0..Len(s) : p + k >= Len(s) \/ s[p + k + 1] = c})

\* the end of \{\s*"type"\s*:\s*"service_account" at position p
ServiceAccountHead(s, p) ==
    Lit(s, SkipSpace(s, Lit(s, SkipSpace(s, Lit(s, SkipSpace(s,
        Lit(s, p, <<"{">>)), <<"\"", "t", "y", "p", "e", "\"">>)), <<":">>)), <<"\"", "s", "e", "r", "v", "i", "c", "e", "_", "a", "c", "c", "o", "u", "n", "t", "\"">>)

\* the end of "private_key"\s*:\s*"[^"]+"\s*\} at position p
ServiceAccountTail(s, p) ==
    LET a == Lit(s, SkipSpace(s, Lit(s, SkipSpace(s,
                 Lit(s, p, <<"\"", "p", "r", "i", "v", "a", "t", "e", "_", "k", "e", "y", "\"">>)), <<":">>)), <<"\"">>)
        n == IF a < 0 THEN 0 ELSE RunUntil(s, a, "\"")
    IN IF a < 0 \/ n = 0 THEN 0 - 1
       ELSE Lit(s, SkipSpace(s, Lit(s, a + n, <<"\"">>)), <<"}">>)

\* the end of the match of the service account expression at position p;
\* [\s\S]*? takes the first position where the rest matches
ServiceAccountEnd(s, p) ==
    LET h == ServiceAccountHead(s, p)
        tails == IF h < 0 THEN {}
                 ELSE {t \in h..Len(s) : ServiceAccountTail(s, t) >= 0}
    IN IF tails = {} THEN 0 - 1
       ELSE ServiceAccountTail(s, Least(tails))

\* content.matchAll(new RegExp(detector.pattern, 'g')) for the service
\* account detector, from position p on
RECURSIVE ServiceAccountMatches(_, _)
ServiceAccountMatches(s, p) ==
    LET starts == {q \in p..(Len(s) - 1) : ServiceAccountEnd(s, q) >= 0}
    IN IF starts = {} THEN <<>>
       ELSE LET q == Least(starts)
                e == ServiceAccountEnd(s, q)
            IN <<[index |-> q, length |-> e - q]>>
                  \o ServiceAccountMatches(s, e)

\* characters of a multi-line match kept in a finding
BlockPreviewLen == 100

\* detectMultiLineSecrets(content)
detectMultiLineSecrets(content) ==
    (IF PrivateKeyMarker(content, <<"B", "E", "G", "I", "N">>) /\ PrivateKeyMarker(content, <<"E", "N", "D">>)
     THEN <<[type |-> "Private Key Block",
             match |-> "Multi-line secret detected",
             severity |-> "CRITICAL"]>>
     ELSE <<>>)
    \o
    (IF CertificateMarker(content, <<"B", "E", "G", "I", "N">>) /\ CertificateMarker(content, <<"E", "N", "D">>)
     THEN <<[type |-> "Certificate Block",
             match |-> "Multi-line secret detected",
             severity |-> "LOW"]>>
     ELSE <<>>)
    \o
    (LET ms == ServiceAccountMatches(content, 0)
     IN [k \in 1..Len(ms) |->
           [type |-> "Google Service Account JSON",
            match |-> substring0(MatchText(content, ms[k]), BlockPreviewLen)
                         \o Ellipsis,
            severity |-> "CRITICAL"]])

----------------------------------------------------------------------------
(* scanFile                                                                *)

\* ...findings.map(f => ({ ...f, file: filePath }))
WithFile(fs, filePath) ==
    [k \in 1..Len(fs) |->
       [x \in DOMAIN fs[k] \cup {"file"} |->
          IF x = "file" THEN filePath ELSE fs[k][x]]]

\* scanFile(filePath) without the AI pass, called when the patterns of the
\* registry have lastIndex li, on a file that reads as content: the
\* findings returned and the lastIndex of every pattern afterwards
scanFile(content, li, filePath) ==
    [findings |->
        PatternPass(API_KEY_PATTERNS, li, content, filePath, 1)
          \o EntropyPass(content, filePath)
          \o WithFile(detectBase64Secrets(content, li), filePath)
          \o WithFile(detectMultiLineSecrets(content), filePath),
     lastIndex |-> IndexAfterBase64(content, li)]

\* the greatest element of a set of numbers
Greatest(S) == CHOOSE x \in S : \A y \in S : x >= y

\* the line of content that holds the position index: from after
\* content.lastIndexOf('\n', index) to content.indexOf('\n', index)
LineOf(content, index) ==
    LET before == {i \in 1..Min(index + 1, Len(content)) : content[i] = "\n"}
        after == {j \in (index + 1)..Len(content) : content[j] = "\n"}
        lineStart == IF before = {} THEN 0 ELSE Greatest(before)
        lineEnd == IF after = {} THEN Len(content) ELSE Least(after) - 1
    IN SubSeq(content, lineStart + 1, lineEnd)

\* String.prototype.trim
Trim(s) ==
    LET keep == {i \in 1..Len(s) : s[i] \notin WhiteSpace}
    IN IF keep = {} THEN <<>> ELSE SubSeq(s, Least(keep), Greatest(keep))

\* characters of a line kept in a finding of the earlier scanner
LineContentLen == 100

\* line.trim().substring(0, 100) + (line.length > 100 ? '...' : '')
LineContent(line) ==
    substring0(Trim(line), LineContentLen)
        \o (IF Len(line) > LineContentLen THEN Ellipsis ELSE <<>>)

\* the findings one detector of the earlier scanner adds; matchAll starts
\* at 0, the earlier scanner never calls test on a detector pattern
LegacyDetectorFindings(detector, content, filePath) ==
    LET ms == MatchAll(detector.pattern, content, 0)
        kept == SelectSeq(ms, LAMBDA m : PassesContext(detector, content, m))
    IN [k \in 1..Len(kept) |->
          [type |-> detector.name, file |-> filePath,
           line |-> LineNumber(content, kept[k].index),
           match |-> Preview(MatchText(content, kept[k])),
           content |-> LineContent(LineOf(content, kept[k].index))]]

RECURSIVE LegacyPatternPass(_, _, _)
LegacyPatternPass(content, filePath, d) ==
    IF d > Len(LEGACY_API_KEY_PATTERNS) THEN <<>>
    ELSE LegacyDetectorFindings(LEGACY_API_KEY_PATTERNS[d], content, filePath)
            \o LegacyPatternPass(content, filePath, d + 1)

\* scanFile of the earlier scanner, for a file that can be read
legacyScanFile(content, filePath) == LegacyPatternPass(content, filePath, 1)

----------------------------------------------------------------------------
(* Detection runs: scanFile called on one file after another               *)

\* files scanned by one process
MaxFiles == 2

\* n times the character c
Repeat(c, n) == [i \in 1..n |-> c]

\* a text of the shape of an AWS access key id (20 characters)
AwsKey == <<"A", "K", "I", "A", "A", "B", "C", "D", "E", "F", "G", "H", "I", "J", "K", "L", "M", "N", "O", "P">>

\* a text of the shape of a GitHub personal access token (40 characters)
GhpToken == <<"g", "h", "p", "_">> \o Repeat("a", 36)

\* a word of 26 different characters
MixedWord == <<"a", "B", "3", "d", "E", "6", "g", "H", "9", "j", "K", "2", "m", "N", "5", "p", "Q", "8", "s", "T", "1", "v", "W", "4", "y", "Z">>

\* texts that match the pattern of a detector, with the detector's position
\* in the registry
Samples == {[detector |-> 1, text |-> AwsKey], [detector |-> 3, text |-> GhpToken]}

\* what the files hold: a key, a token, their base64 encodings alone and
\* twice on two lines, a word of high entropy, a text without any secret
FilePool ==
    { AwsKey,
      GhpToken,
      Base64Encode(AwsKey),
      Base64Encode(GhpToken),
      Base64Encode(GhpToken) \o <<"\n">> \o Base64Encode(GhpToken),
      <<"t", "o", "k", "e", "n", " ", "=", " ">> \o GhpToken \o <<"\n">>,
      MixedWord,
      <<"h", "e", "l", "l", "o", " ", "w", "o", "r", "l", "d">> }

\* the lastIndex of every pattern when the process starts
FreshIndex == [d \in 1..Len(API_KEY_PATTERNS) |-> 0]

DetectInit ==
    /\ MergeIdle
    /\ ScanIdle
    /\ ArchiveIdle
    /\ TempIdle
    /\ ExternalIdle
    /\ DispatchIdle
    /\ lastIndex = FreshIndex
    /\ contents \in SeqsUpTo(FilePool, MaxFiles)
    /\ scanned = 0
    /\ returned = <<>>
    /\ flagged = <<>>
    /\ dpc = "scan"

\* the walk dispatches scanFile for the next file; without the AI pass the
\* call runs to its end before the walk goes on
ScanNextFile ==
    /\ dpc = "scan"
    /\ scanned < Len(contents)
    /\ LET r == scanFile(contents[scanned + 1], lastIndex,
                         EntryPath(scanned + 1))
       IN /\ returned' = Append(returned, r.findings)
          /\ lastIndex' = r.lastIndex
    /\ scanned' = scanned + 1
    /\ UNCHANGED <<mvars, svars, avars, tvars, xvars, fvars, contents, flagged, dpc>>

DetectNext == ScanNextFile

SpecDetect == DetectInit /\ [][DetectNext]_vars

----------------------------------------------------------------------------
(* Context runs: the earlier scanner's scanFile on a 40-character run with *)
(* a context keyword at a chosen distance on either side                   *)

\* what stands left or right of the padding: nothing or the keyword
ContextWords == {<<>>, <<"a", "w", "s", "_", "s", "e", "c", "r", "e", "t">>, <<"A", "W", "S", "_", "S", "E", "C", "R", "E", "T">>}

\* how many padding characters separate the left word from the run
LeftPads == {0, 40, 41, 50}

\* how many padding characters separate the run from the right word
RightPads == {0, 40, 41}

\* length of the run of the character k: too short for the pattern, one
\* match, two matches
RunLengths == {39, 40, 80}

PadChars == {" ", "\n"}

ContextPool ==
    { left \o Repeat(c, nl) \o Repeat("k", n) \o Repeat(c, nr) \o right :
        left \in ContextWords, right \in ContextWords, c \in PadChars,
        nl \in LeftPads, nr \in RightPads, n \in RunLengths }

ContextInit ==
    /\ MergeIdle
    /\ ScanIdle
    /\ ArchiveIdle
    /\ TempIdle
    /\ ExternalIdle
    /\ DispatchIdle
    /\ lastIndex = <<>>
    /\ contents \in { <<c>> : c \in ContextPool }
    /\ scanned = 0
    /\ returned = <<>>
    /\ flagged = <<>>
    /\ dpc = "context"

ScanLegacyFile ==
    /\ dpc = "context"
    /\ scanned < Len(contents)
    /\ returned' = Append(returned,
                          legacyScanFile(contents[scanned + 1],
                                         EntryPath(scanned + 1)))
    /\ scanned' = scanned + 1
    /\ UNCHANGED <<mvars, svars, avars, tvars, xvars, fvars, lastIndex, contents, flagged, dpc>>

ContextNext == ScanLegacyFile

SpecContext == ContextInit /\ [][ContextNext]_vars

----------------------------------------------------------------------------
(* Entropy runs: isHighEntropyString called on a string, and the entropy   *)
(* pass of scanFile on a file whose content is that string                 *)

Digits25 == <<"1", "2", "3", "4", "5", "6", "7", "8", "9", "0", "1", "2", "3", "4", "5", "6", "7", "8", "9", "0", "1", "2", "3", "4", "5">>

\* the middle of a string under test
EntropyBodies == {
    Digits25,
    <<"0", "1", "2", "3", "4", "5", "6", "7", "8", "9", "a", "b", "c", "d", "e", "f", "A", "B", "C", "D", "E", "F", "0", "1", "2", "3", "4", "5", "6", "7", "8", "9">>,
    <<"a", "B", "c", "D", "e", "F", "g", "H", "i", "J", "-", "k", "L", "m", "N", "o", "P", "q", "R", "s", "T", "-", "u", "V", "w", "X", "y", "Z">>,
    <<"Q", "w", "E", "r", "T", "y", "U", "i", "O", "p", "A", "s", "D", "f", "G", "h", "J", "k", "L", "z", "X", "c", "V", "b", "N", "m">>,
    MixedWord,
    <<"a", "B", "3", "d", "E", "6", "g", "H", "9", "j", "K", "2", "m", "N", "5", "p", "Q", "8", "s">>,
    <<"u", "n", "d", "e", "f", "i", "n", "e", "d">>,
    <<"T", "R", "U", "E">>,
    <<"a", "1", "a", "1", "a", "1", "a", "1", "a", "1", "a", "1", "a", "1", "a", "1", "a", "1", "a", "1", "a", "1">> }

\* what stands before the middle
EntropyPrefixes == {<<>>, <<"h", "t", "t", "p", ":", "/", "/">>, <<"H", "T", "T", "P", "S", ":", "/", "/">>, <<"x", "h", "t", "t", "p", ":", "/", "/">>, <<"\"">>}

\* what stands after it
EntropySuffixes == {<<>>, <<".", "p", "n", "g">>, <<".", "J", "P", "G">>, <<".", "w", "o", "f", "f">>, <<".", "t", "x", "t">>, <<"\"">>}

EntropyPool ==
    { p \o b \o x : p \in EntropyPrefixes, b \in EntropyBodies,
                      x \in EntropySuffixes }

EntropyInit ==
    /\ MergeIdle
    /\ ScanIdle
    /\ ArchiveIdle
    /\ TempIdle
    /\ ExternalIdle
    /\ DispatchIdle
    /\ lastIndex = <<>>
    /\ contents \in { <<c>> : c \in EntropyPool }
    /\ scanned = 0
    /\ returned = <<>>
    /\ flagged = <<>>
    /\ dpc = "entropy"

\* isHighEntropyString(str) for the next string, and the entropy pass of
\* scanFile over a file holding it
CheckString ==
    /\ dpc = "entropy"
    /\ scanned < Len(contents)
    /\ flagged' = Append(flagged, isHighEntropyString(contents[scanned + 1]))
    /\ returned' = Append(returned,
                          EntropyPass(contents[scanned + 1],
                                      EntryPath(scanned + 1)))
    /\ scanned' = scanned + 1
    /\ UNCHANGED <<mvars, svars, avars, tvars, xvars, fvars, lastIndex, contents, dpc>>

EntropyNext == CheckString

SpecEntropy == EntropyInit /\ [][EntropyNext]_vars

----------------------------------------------------------------------------
(* Temporary directories: the archive jobs one walk dispatches, and the    *)
(* directories their extractions use                                       *)

\* archive jobs one walk dispatches
MaxJobs == 2

\* nested extraction directories of one job
MaxNested == 2

\* milliseconds the clock advances during the run
MaxClock == 1

\* Math.random().toString(36).substring(7): the digits of the number in base
\* 36 after the first five of its fraction; nothing when the number has no
\* more digits (0.5 is "0.i")
Suffixes == {<<>>, <<"a">>}

\* `source-secure-${Date.now()}-${suffix}` joined to os.tmpdir()
TempDirName(time, suffix) ==
    <<"/", "t", "m", "p", "/", "s", "o", "u", "r", "c", "e", "-", "s", "e", "c", "u", "r", "e", "-">> \o NumberToString(time) \o <<"-">> \o suffix

\* path.join(extractDir, `nested_${Date.now()}_${suffix}`)
NestedDirName(extractDir, time, suffix) ==
    extractDir \o <<"/", "n", "e", "s", "t", "e", "d", "_">> \o NumberToString(time) \o <<"_">> \o suffix

TempInit ==
    /\ MergeIdle
    /\ ScanIdle
    /\ ArchiveIdle
    /\ DetectIdle
    /\ ExternalIdle
    /\ DispatchIdle
    /\ now = 0
    /\ jobs = <<>>
    /\ tpc = "walk"

\* a millisecond passes
Tick ==
    /\ tpc \in {"walk", "join"}
    /\ now < MaxClock
    /\ now' = now + 1
    /\ UNCHANGED <<mvars, svars, avars, dvars, xvars, fvars, jobs, tpc>>

\* walk: scanPromises.push(scanArchive(fullPath, flags.ai)); the call names
\* its temporary directory, extractArchive creates it with
\* fs.mkdirSync(extractDir, {recursive: true}), and the call suspends at the
\* extraction
DispatchArchiveJob ==
    /\ tpc = "walk"
    /\ Len(jobs) < MaxJobs
    /\ \E suffix \in Suffixes :
         jobs' = Append(jobs,
                    [active |-> TRUE,
                     dirs |-> <<[path |-> TempDirName(now, suffix),
                                 depth |-> 0]>>])
    /\ UNCHANGED <<mvars, svars, avars, dvars, xvars, fvars, now, tpc>>

\* walk returns and main awaits the join
WalkDone ==
    /\ tpc = "walk"
    /\ tpc' = "join"
    /\ UNCHANGED <<mvars, svars, avars, dvars, xvars, fvars, now, jobs>>

\* extractArchive of job j finds an archive among the files extracted into
\* one of its directories and extracts it, with depth + 1, into a nested
\* directory of that directory (below maxDepth: at maxDepth the call
\* returns before it creates the directory)
ExtractNested(j) ==
    /\ tpc = "join"
    /\ jobs[j].active
    /\ Len(jobs[j].dirs) <= MaxNested
    /\ \E p \in 1..Len(jobs[j].dirs), suffix \in Suffixes :
         /\ jobs[j].dirs[p].depth + 1 < maxDepth
         /\ jobs' = [jobs EXCEPT ![j].dirs =
                       Append(@, [path |-> NestedDirName(jobs[j].dirs[p].path,
                                                         now, suffix),
                                  depth |-> jobs[j].dirs[p].depth + 1])]
    /\ UNCHANGED <<mvars, svars, avars, dvars, xvars, fvars, now, tpc>>

\* scanArchive of job j returns; its finally block has removed tempDir
FinishJob(j) ==
    /\ tpc = "join"
    /\ jobs[j].active
    /\ jobs' = [jobs EXCEPT ![j].active = FALSE]
    /\ UNCHANGED <<mvars, svars, avars, dvars, xvars, fvars, now, tpc>>

TempNext ==
    \/ Tick
    \/ DispatchArchiveJob
    \/ WalkDone
    \/ \E j \in 1..Len(jobs) : ExtractNested(j)
    \/ \E j \in 1..Len(jobs) : FinishJob(j)

SpecTemp == TempInit /\ [][TempNext]_vars

----------------------------------------------------------------------------
(* Block runs: detectMultiLineSecrets called on a file made of lines that  *)
(* are start markers, end markers, or neither                              *)

\* lines of one file
MaxBlockLines == 3

BeginKey == <<"-", "-", "-", "-", "-", "B", "E", "G", "I", "N", " ", "R", "S", "A", " ", "P", "R", "I", "V", "A", "T", "E", " ", "K", "E", "Y", "-", "-", "-", "-", "-">>
EndKey == <<"-", "-", "-", "-", "-", "E", "N", "D", " ", "R", "S", "A", " ", "P", "R", "I", "V", "A", "T", "E", " ", "K", "E", "Y", "-", "-", "-", "-", "-">>
BeginCertificate == <<"-", "-", "-", "-", "-", "B", "E", "G", "I", "N", " ", "C", "E", "R", "T", "I", "F", "I", "C", "A", "T", "E", "-", "-", "-", "-", "-">>
EndCertificate == <<"-", "-", "-", "-", "-", "E", "N", "D", " ", "C", "E", "R", "T", "I", "F", "I", "C", "A", "T", "E", "-", "-", "-", "-", "-">>

\* a header of the start pattern's shape, without a word between BEGIN and
\* PRIVATE KEY: [A-Z\s]+ has nothing left to take after \s+
BeginKeyNoWord == <<"-", "-", "-", "-", "-", "B", "E", "G", "I", "N", " ", "P", "R", "I", "V", "A", "T", "E", " ", "K", "E", "Y", "-", "-", "-", "-", "-">>

\* a line of base64 text
BodyLine == <<"M", "I", "I", "B", "V", "Q", "I", "B", "A", "D", "A", "N", "B", "g", "k", "q">>

BlockLines == {BeginKey, EndKey, BeginCertificate, EndCertificate,
               BeginKeyNoWord, BodyLine}

\* lines.join('\n')
RECURSIVE JoinLines(_)
JoinLines(lines) ==
    IF lines = <<>> THEN <<>>
    ELSE IF Len(lines) = 1 THEN lines[1]
    ELSE lines[1] \o <<"\n">> \o JoinLines(Tail(lines))

BlockPool == { JoinLines(lines) : lines \in SeqsUpTo(BlockLines, MaxBlockLines) }

BlockInit ==
    /\ MergeIdle
    /\ ScanIdle
    /\ ArchiveIdle
    /\ TempIdle
    /\ ExternalIdle
    /\ DispatchIdle
    /\ lastIndex = <<>>
    /\ contents \in { <<c>> : c \in BlockPool }
    /\ scanned = 0
    /\ returned = <<>>
    /\ flagged = <<>>
    /\ dpc = "blocks"

\* scanFile's call detectMultiLineSecrets(content) for the next file
ScanBlocks ==
    /\ dpc = "blocks"
    /\ scanned < Len(contents)
    /\ returned' = Append(returned,
                          detectMultiLineSecrets(contents[scanned + 1]))
    /\ scanned' = scanned + 1
    /\ UNCHANGED <<mvars, svars, avars, tvars, xvars, fvars, lastIndex, contents, flagged,
                   dpc>>

BlockNext == ScanBlocks

SpecBlocks == BlockInit /\ [][BlockNext]_vars

----------------------------------------------------------------------------
(* Format dispatch: a file is met, isArchive decides whether it is handed  *)
(* to extractArchive, and extractArchive chooses the extraction method     *)

\* path.extname(p): from the last "." of the last path segment to the end,
\* nothing when the segment has no "." or only starts with one
extname(p) ==
    LET slashes == {i \in 1..Len(p) : p[i] = "/"}
        start == IF slashes = {} THEN 1 ELSE Greatest(slashes) + 1
        dots == {i \in start..Len(p) : p[i] = "."}
    IN IF dots = {} \/ Greatest(dots) = start THEN <<>>
       ELSE SubSeq(p, Greatest(dots), Len(p))

\* String.prototype.startsWith
startsWith(s, t) == Len(s) >= Len(t) /\ SubSeq(s, 1, Len(t)) = t

ZipFamily == {<<".", "z", "i", "p">>, <<".", "j", "a", "r">>, <<".", "w", "a", "r">>, <<".", "e", "a", "r">>}

TarFamily == {<<".", "t", "a", "r">>, <<".", "t", "a", "r", ".", "g", "z">>, <<".", "t", "g", "z">>, <<".", "t", "a", "r", ".", "b", "z", "2">>, <<".", "t", "b", "z", "2">>,
              <<".", "t", "a", "r", ".", "x", "z">>, <<".", "t", "x", "z">>}

SevenZipFamily == {<<".", "7", "z">>, <<".", "r", "a", "r">>}

SingleStream == {<<".", "g", "z">>, <<".", "b", "z", "2">>, <<".", "x", "z">>}

ARCHIVE_EXTENSIONS == ZipFamily \cup TarFamily \cup SevenZipFamily \cup SingleStream

\* isArchive(filePath), ARCHIVE_CONFIG.enabled being true
isArchive(filePath) == toLowerCase(extname(filePath)) \in ARCHIVE_EXTENSIONS

\* the if chain of extractArchive over ext
ExtractionMethod(ext) ==
    IF ext \in ZipFamily THEN "extractZip"
    ELSE IF startsWith(ext, <<".", "t", "a", "r">>)
            \/ ext \in {<<".", "t", "a", "r">>, <<".", "t", "g", "z">>, <<".", "t", "b", "z", "2">>, <<".", "t", "x", "z">>}
         THEN "extractTar"
    ELSE IF ext \in SevenZipFamily THEN "extract7z"
    ELSE "extractWithSystemCommand"

\* how file names end: the archive extensions, some of them in capitals,
\* an extension that is none of them, and no extension
FileEndings ==
    ARCHIVE_EXTENSIONS
      \cup {<<".", "T", "A", "R", ".", "G", "Z">>, <<".", "Z", "I", "P">>, <<".", "T", "g", "z">>, <<".", "t", "x", "t">>, <<>>}

\* what stands before the ending
FileStems == {<<"a">>, <<"a", ".", "b">>, <<"d", "i", "r", ".", "z", "i", "p", "/", "a">>}

DispatchInit ==
    /\ MergeIdle
    /\ ScanIdle
    /\ ArchiveIdle
    /\ DetectIdle
    /\ TempIdle
    /\ ExternalIdle
    /\ archivePath \in { s \o e : s \in FileStems, e \in FileEndings }
    /\ method = "none"
    /\ fpc = "met"

\* walk, or the loop over the extracted files: if (isArchive(fullPath))
MeetFile ==
    /\ fpc = "met"
    /\ fpc' = IF isArchive(archivePath) THEN "extractArchive" ELSE "scanFile"
    /\ UNCHANGED <<mvars, svars, avars, dvars, tvars, xvars, archivePath,
                   method>>

\* extractArchive, below the depth limit: ext is taken from the path and
\* the extraction method is chosen
ChooseMethod ==
    /\ fpc = "extractArchive"
    /\ method' = ExtractionMethod(toLowerCase(extname(archivePath)))
    /\ fpc' = "extracting"
    /\ UNCHANGED <<mvars, svars, avars, dvars, tvars, xvars, archivePath>>

DispatchNext ==
    \/ MeetFile
    \/ ChooseMethod

SpecDispatch == DispatchInit /\ [][DispatchNext]_vars

----------------------------------------------------------------------------
(* Properties of the archive job (SpecArchive)                             *)

\* C4: no format extractor runs for an archive at depth >= maxDepth; the
\* calls on the stack are nested with depth 0, 1, 2, ... (each nested
\* archive is extracted with depth + 1), so the archive found at depth
\* maxDepth is only met by the call that logs the warning and returns 0.
C4_DepthBound ==
    /\ lastRun.ran => lastRun.depth < maxDepth
    /\ \A k \in 1..Len(stack) : stack[k].depth = k - 1
    /\ Len(stack) <= maxDepth + 1

\* a chain of archives was extracted at depths 0 .. maxDepth - 1, the archive
\* inside the innermost one was skipped with the warning, and the job
\* completed with the findings of the extracted levels
C4_Witness ==
    /\ apc = "done"
    /\ "depthWarning" \in alog
    /\ runs = maxDepth
    /\ aresult # <<>>

C6_FailedExtractionNoFindings ==
    (apc = "done" /\ 0 \in rejectedDepths) =>
        (aresult = <<>> /\ "extractFailed" \in alog)

\* C7: at every moment the bytes extracted into the job's temporary
\* directory, nested archives included, do not exceed maxExtractSize.
C7_ExtractedBytesWithinCeiling == bytesOnDisk <= maxExtractSize

\* C8: a format extractor handed an archive whose entries add up to more
\* than maxExtractSize aborts with an error; it never completes successfully.
C8_ExtractorsEnforceCeiling ==
    (lastRun.ran /\ lastRun.total > maxExtractSize) => ~lastRun.ok

----------------------------------------------------------------------------
(* Properties of the scan run (Spec)                                       *)

\* main went through the result display (the walk did not throw)
Reported == pc = "exited" /\ printed # "nothing"

\* C3: the process exits 1 whenever the scan produced a CRITICAL or HIGH
\* finding from any source (file tree, archives, external tool, git history)
\* and exits 0 otherwise, for every combination of flags.
C3_ExitCodeContract ==
    Reported =>
        exitCode = (IF HasSevere(findings) \/ HasSevere(historyFindings)
                    THEN 1 ELSE 0)

\* C9: a directory entry that cannot be stat'ed or listed is skipped alone:
\* every scannable file and archive of the tree is still dispatched, and the
\* scan is not aborted (it reaches its result display).
C9_FailedEntrySkippedAlone ==
    pc = "exited" =>
        /\ \A i \in 1..Len(entries) :
              entries[i] \in {"archive", "scannable"}
                 => \E t \in 1..Len(scanPromises) : scanPromises[t].entry = i
        /\ printed # "nothing"

\* two findings are the same occurrence: type, file, line and match agree
SameOccurrence(f, g) ==
    /\ f.type = g.type
    /\ f.file = g.file
    /\ f.line = g.line
    /\ f.match = g.match

\* C10: once main is past the join (external scan, merge, history, result
\* display, exit code), every dispatched scan has completed and findings
\* holds the findings of every dispatched scan, in dispatch order.
C10_JoinBarrier ==
    (pc \in {"external", "merge", "history", "report"} \/ Reported) =>
        /\ \A t \in 1..Len(scanPromises) : scanPromises[t].state # "pending"
        /\ LET all == Flatten(scanPromises) IN
             /\ Len(findings) >= Len(all)
             /\ \A k \in 1..Len(all) : SameOccurrence(findings[k], all[k])

\* two scans were pending together, the later-dispatched one completed
\* first, and the result display has the findings of both
C10_Witness ==
    /\ Reported
    /\ Len(scanPromises) = 2
    /\ settleOrder = <<2, 1>>
    /\ scanPromises[1].value # <<>>
    /\ scanPromises[2].value # <<>>
    /\ Len(findings) >= 2

----------------------------------------------------------------------------
(* Properties of the merger (SpecMerge)                                    *)

OneInternalOneExternal ==
    /\ mpc = "merged"
    /\ Len(internalFindings) = 1
    /\ Len(externalFindings) = 1
    /\ internalFindings[1].file = externalFindings[1].file
    /\ internalFindings[1].line = externalFindings[1].line

\* both texts have at least PrefixLen characters and agree on the first PrefixLen
SharePrefix(a, b) ==
    /\ Len(a) >= PrefixLen
    /\ Len(b) >= PrefixLen
    /\ SubSeq(a, 1, PrefixLen) = SubSeq(b, 1, PrefixLen)

SingleCorroborated ==
    /\ Len(merged) = 1
    /\ \E k \in 1..Len(merged[1].verifiedBy) :
          merged[1].verifiedBy[k] = externalFindings[1].tool

\* C1 as stated: one internal and one external finding with the same file,
\* the same line and a common match prefix of at least 20 characters merge
\* into exactly one finding whose verifiedBy names the external tool.
C1_PrefixDedup ==
    (OneInternalOneExternal
       /\ SharePrefix(internalFindings[1].match, externalFindings[1].match))
    => SingleCorroborated

\* C1 amended: one internal and one external finding with the same file, the
\* same line and match texts that are equal up to letter case merge into
\* exactly one finding whose verifiedBy names the external tool.
C1_SameMatchDedup ==
    (OneInternalOneExternal
       /\ toLowerCase(internalFindings[1].match)
            = toLowerCase(externalFindings[1].match))
    => SingleCorroborated

C1_Witness ==
    /\ OneInternalOneExternal
    /\ internalFindings[1].match # externalFindings[1].match
    /\ toLowerCase(internalFindings[1].match)
         = toLowerCase(externalFindings[1].match)
    /\ SingleCorroborated

\* C2: merging with an empty external list returns exactly the internal
\* list: same findings, same order, nothing added, removed or modified.
C2_EmptyExternalIdentity ==
    (mpc = "merged" /\ externalFindings = <<>>) => merged = internalFindings

C2_Witness ==
    /\ mpc = "merged"
    /\ externalFindings = <<>>
    /\ Len(internalFindings) >= 2
    /\ Fingerprint(internalFindings[1]) = Fingerprint(internalFindings[2])
    /\ merged = internalFindings

----------------------------------------------------------------------------
(* Properties of detection runs (SpecDetect)                               *)

\* C11: no scan changes the state of a detector (the lastIndex of its
\* pattern stays as it was when the process started), and the findings
\* scanFile returns for a file are those a fresh process returns for the
\* same content, whatever was scanned before.
C11_DetectorsStateless ==
    dpc = "scan" =>
        /\ lastIndex = FreshIndex
        /\ \A k \in 1..scanned :
              returned[k]
                = scanFile(contents[k], FreshIndex, EntryPath(k)).findings

\* how often the text t occurs in s
Occurrences(s, t) == Cardinality({p \in 0..Len(s) : StartsWithAt(s, p, t)})

\* the findings of a list that have the given type and severity
OfType(fs, type, severity) ==
    SelectSeq(fs, LAMBDA f : f.type = type /\ f.severity = severity)

\* C13: a file whose content embeds the standard base64 encoding of a text
\* that matches a detector's pattern yields, for each embedded encoding, a
\* finding of type "Base64 Encoded <detector name>" at the detector's
\* severity.
C13_Base64RoundTrip ==
    dpc = "scan" =>
        \A k \in 1..scanned : \A sample \in Samples :
            LET detector == API_KEY_PATTERNS[sample.detector]
            IN Len(OfType(returned[k], "Base64 Encoded " \o detector.name,
                          detector.severity))
                 >= Occurrences(contents[k], Base64Encode(sample.text))

----------------------------------------------------------------------------
(* Properties of the context check (SpecContext)                           *)

AwsSecretKey ==
    LEGACY_API_KEY_PATTERNS[
        CHOOSE d \in 1..Len(LEGACY_API_KEY_PATTERNS) :
            LEGACY_API_KEY_PATTERNS[d].name = "AWS Secret Key"]

\* a context keyword, in either case, lies wholly between 50 characters
\* before the match m and 50 characters after it
KeywordInWindow(content, m) ==
    \E k \in 1..Len(AwsSecretKey.context) : \E q \in 0..Len(content) :
        /\ StartsWithAt(toLowerCase(content), q, AwsSecretKey.context[k])
        /\ q >= m.index - 50
        /\ q + Len(AwsSecretKey.context[k]) <= m.index + m.length + 50

AwsSecretFindings(fs) == SelectSeq(fs, LAMBDA f : f.type = "AWS Secret Key")

\* C12: the AWS Secret Key findings of a file are, in order, those of the
\* matches of the 40-character pattern that have a context keyword inside
\* the window of 50 characters on both sides; a match without one yields no
\* finding.
C12_ContextWindow ==
    dpc = "context" =>
        \A f \in 1..scanned :
            LET content == contents[f]
                ms == MatchAll(AwsSecretKey.pattern, content, 0)
                near == SelectSeq(ms, LAMBDA m : KeywordInWindow(content, m))
                found == AwsSecretFindings(returned[f])
            IN /\ Len(found) = Len(near)
               /\ \A i \in 1..Len(found) :
                     /\ found[i].line = LineNumber(content, near[i].index)
                     /\ found[i].match = MatchText(content, near[i])

\* a file with two matches of which one alone has the keyword in its window
C12_Witness ==
    /\ dpc = "context"
    /\ scanned = 1
    /\ Len(MatchAll(AwsSecretKey.pattern, contents[1], 0)) = 2
    /\ Len(AwsSecretFindings(returned[1])) = 1

----------------------------------------------------------------------------
(* Properties of the entropy check (SpecEntropy)                           *)

\* strings of the pool that are pure digits, pure hex, a keyword, or letters
\* and hyphens
ExcludedBodies == {
    Digits25,
    <<"0", "1", "2", "3", "4", "5", "6", "7", "8", "9", "a", "b", "c", "d", "e", "f", "A", "B", "C", "D", "E", "F", "0", "1", "2", "3", "4", "5", "6", "7", "8", "9">>,
    <<"a", "B", "c", "D", "e", "F", "g", "H", "i", "J", "-", "k", "L", "m", "N", "o", "P", "q", "R", "s", "T", "-", "u", "V", "w", "X", "y", "Z">>,
    <<"Q", "w", "E", "r", "T", "y", "U", "i", "O", "p", "A", "s", "D", "f", "G", "h", "J", "k", "L", "z", "X", "c", "V", "b", "N", "m">>,
    <<"u", "n", "d", "e", "f", "i", "n", "e", "d">>,
    <<"T", "R", "U", "E">> }

\* the string is put together so that an exclusion applies to it: it is
\* shorter than 20 characters, starts with http:// or https:// in either
\* case, ends with a listed file extension in either case, or is as a whole
\* pure digits, pure hex, a keyword or a letters-and-hyphens identifier
ExcludedByConstruction(str) ==
    \/ Len(str) < 20
    \/ \E p \in EntropyPrefixes, b \in EntropyBodies, x \in EntropySuffixes :
          /\ str = p \o b \o x
          /\ \/ p \in {<<"h", "t", "t", "p", ":", "/", "/">>, <<"H", "T", "T", "P", "S", ":", "/", "/">>}
             \/ x \in {<<".", "p", "n", "g">>, <<".", "J", "P", "G">>, <<".", "w", "o", "f", "f">>}
             \/ p = <<>> /\ x = <<>> /\ b \in ExcludedBodies

\* C14: a string shorter than minLength or matching an exclusion is never
\* flagged by isHighEntropyString, whatever its entropy; a file holding the
\* 25-digit string 1234567890123456789012345, bare or between quotes, yields
\* no High Entropy String finding.
C14_ExclusionsAbsolute ==
    dpc = "entropy" =>
        \A k \in 1..scanned :
            /\ ExcludedByConstruction(contents[k]) => ~flagged[k]
            /\ contents[k] \in {Digits25, <<"\"">> \o Digits25 \o <<"\"">>}
                  => returned[k] = <<>>

\* the letters-and-hyphens identifier of 27 different characters has been
\* checked: its entropy is above 4.5 and it was rejected
C14_Witness ==
    /\ dpc = "entropy"
    /\ scanned = 1
    /\ contents[1] = <<"a", "B", "c", "D", "e", "F", "g", "H", "i", "J", "-", "k", "L", "m", "N", "o", "P", "q", "R", "s", "T", "-", "u", "V", "w", "X", "y", "Z">>
    /\ EntropyMilliTimesLen(contents[1]) >= MinEntropyMilli * Len(contents[1])
    /\ flagged = <<FALSE>>

----------------------------------------------------------------------------
(* Properties of the external tool scan (Spec)                             *)

\* no command passed the availability probe, or the tool run failed or
\* timed out
ToolDegraded == extTool.run \in {"notRun", "fails", "timeout"}

\* C16: when the availability probe fails for every command, or the tool
\* run fails or times out, runExternalScans returns the empty list, the
\* merged findings are the internal findings, and they are what the result
\* display reports.
C16_ExternalDegradesGracefully ==
    ToolDegraded =>
        /\ extResult = <<>>
        /\ pc \in {"merge", "history", "report", "exited"}
        /\ pc # "merge" => findings = Flatten(scanPromises)
        /\ pc = "exited" =>
              printed = IF Flatten(scanPromises) = <<>> THEN "noSecrets"
                        ELSE "summary"

\* the tool run timed out and the run ended with the summary of the
\* internal findings
C16_Witness ==
    /\ pc = "exited"
    /\ extTool = [working |-> {PrimaryCommand}, run |-> "timeout"]
    /\ findings # <<>>
    /\ printed = "summary"

C16_ProbeFailedWitness ==
    /\ pc = "exited"
    /\ extTool = [working |-> {}, run |-> "notRun"]
    /\ findings # <<>>
    /\ printed = "summary"

----------------------------------------------------------------------------
(* Properties of termination (Spec)                                        *)

\* C17: main always reaches the result display: the process never ends
\* without having printed the no-secrets line or the per-severity summary.
C17_AlwaysPrintsSummary ==
    pc = "exited" => printed \in {"noSecrets", "summary"}

----------------------------------------------------------------------------
(* Properties of the git history scan (Spec)                               *)

\* the target of the scan is in a repository
TargetInRepository(env) == env.target = "cwd" /\ env.cwdRepo

\* C18: when git is unavailable, the target is not a repository or it has no
\* commits, scanGitHistory returns the empty list after the warning; the
\* commits whose diff can be read are scanned also when another commit
\* cannot be read; and the file-tree findings are what the merge left.
C18_HistoryDegradesAlone ==
    gitRun.called =>
        /\ (\/ ~gitRun.env.available
            \/ ~TargetInRepository(gitRun.env)
            \/ gitRun.env.commits = <<>>)
              => (historyFindings = <<>> /\ gitRun.warned)
        /\ TargetInRepository(gitRun.env) =>
              \A k \in 1..Len(gitRun.env.commits) :
                  gitRun.env.commits[k] = "secret"
                    => \E i \in 1..Len(historyFindings) :
                          historyFindings[i].commit = CommitId(k)
        /\ findings
             = mergeFindingsWithExternal(Flatten(scanPromises), extResult)

----------------------------------------------------------------------------
(* Properties of the temporary directories (SpecTemp)                      *)

\* C19: no two archive jobs that are active at the same time use the same
\* temporary directory, and no two extractions of one job use the same
\* directory.
C19_TempDirsNeverShared ==
    tpc \in {"walk", "join"} =>
        /\ \A i, j \in 1..Len(jobs) :
              (i # j /\ jobs[i].active /\ jobs[j].active)
                 => jobs[i].dirs[1].path # jobs[j].dirs[1].path
        /\ \A j \in 1..Len(jobs) : \A a, b \in 1..Len(jobs[j].dirs) :
              a # b => jobs[j].dirs[a].path # jobs[j].dirs[b].path

----------------------------------------------------------------------------
(* Properties of the dispatched tasks (Spec)                               *)

\* C20: no dispatched task ever rejects, and every dispatched task has
\* resolved to its list of findings when the process ends, whatever failed
\* inside it or inside a sibling task.
C20_SiblingIsolation ==
    /\ \A t \in 1..Len(scanPromises) :
          scanPromises[t].state \in {"pending", "fulfilled"}
    /\ pc \in {"exited", "crashed"} => AllSettled(scanPromises)

----------------------------------------------------------------------------
(* Properties of block runs (SpecBlocks)                                   *)

\* how many findings of a list have this type
CountType(fs, type) == Cardinality({k \in 1..Len(fs) : fs[k].type = type})

\* the file of a block run holds both lines
HoldsBoth(begin, end) ==
    /\ includes(contents[1], begin)
    /\ includes(contents[1], end)

----------------------------------------------------------------------------
(* Properties of the availability probe (SpecProbe)                        *)

\* the primary command, then the configured fallbacks in their order
ConfiguredCommands ==
    <<config.command>>
      \o (IF config.hasFallbackCommands THEN config.fallbackCommands
          ELSE IF config.fallbackCommand = "" THEN <<>>
          ELSE <<config.fallbackCommand>>)

\* C22: checkExternalTool probes the primary command first and the fallback
\* commands after it in their configured order, each only after every probe
\* before it failed; it returns the first command whose probe succeeded,
\* and false only when the tool is unknown or disabled (nothing is probed)
\* or every probe failed; it always returns.
C22_ProbeOrder ==
    /\ Len(probed) <= Len(ConfiguredCommands)
    /\ \A k \in 1..Len(probed) :
          /\ probed[k] = ConfiguredCommands[k]
          /\ k < Len(probed) => probed[k] \notin commandsWorking
    /\ (~config.known \/ ~config.enabled) => probed = <<>>
    /\ xpc \in {"idle", "call", "fallback", "returned"}
    /\ xpc # "returned" =>
          /\ probeResult = "none"
          /\ \A k \in 1..Len(probed) : probed[k] \notin commandsWorking
    /\ xpc = "returned" =>
          IF probeResult = "false"
          THEN \/ (~config.known \/ ~config.enabled)
               \/ /\ probed = ConfiguredCommands
                  /\ \A k \in 1..Len(probed) : probed[k] \notin commandsWorking
          ELSE /\ probed # <<>>
               /\ probeResult = probed[Len(probed)]
               /\ probeResult \in commandsWorking
    /\ (xpc = "returned" /\ config = ShippedConfig) =>
          probeResult = checkExternalTool(commandsWorking)

\* the primary and the first fallback fail, the second fallback is returned
C22_Witness ==
    /\ xpc = "returned"
    /\ Len(probed) = 3
    /\ probed[2] # probed[3]
    /\ probed[2] \notin commandsWorking
    /\ probeResult = probed[3]

----------------------------------------------------------------------------
(* Properties of the output parser (SpecParse)                             *)

\* the line is a JSON object that has both raw fields
WellFormed(l) == l # InvalidLine /\ l.Raw # <<>> /\ l.RawV2 # <<>>

\* C23: runTruffleHog skips a line that is not valid JSON (or lacks a raw
\* field) and converts every other line: the findings are, in output order,
\* those of the well-formed lines, one for each.
C23_LineIndependentParsing ==
    xpc = "parsed" =>
        LET good == SelectSeq(toolOutput, WellFormed)
        IN /\ Len(parsed) = Len(good)
           /\ \A k \in 1..Len(good) :
                 /\ parsed[k].verified = good[k].Verified
                 /\ parsed[k].file = good[k].file
                 /\ parsed[k].line = good[k].line
                 /\ substring0(parsed[k].match, 20) = substring0(good[k].Raw, 20)
                 /\ Len(parsed[k].match) >= Min(Len(good[k].Raw), 50)

\* an invalid line between two different records: both are kept, in order
C23_Witness ==
    /\ xpc = "parsed"
    /\ Len(toolOutput) = 3
    /\ toolOutput[2] = InvalidLine
    /\ WellFormed(toolOutput[1])
    /\ WellFormed(toolOutput[3])
    /\ toolOutput[1].Raw # toolOutput[3].Raw
    /\ Len(parsed) = 2
    /\ parsed[1].verified = toolOutput[1].Verified
    /\ parsed[2].verified = toolOutput[3].Verified

----------------------------------------------------------------------------
(* Properties of the merger, finding by finding (SpecMerge)                *)

\* the fingerprints seenSecrets holds when the loop reaches external finding
\* j: those of the internal findings and of the external findings before it
SeenBefore(j) ==
    {Fingerprint(internalFindings[i]) : i \in 1..Len(internalFindings)}
      \cup {Fingerprint(externalFindings[k]) : k \in 1..(j - 1)}

\* allFindings when the loop reaches external finding j
ResultBefore(j) ==
    mergeFindingsWithExternal(internalFindings,
                              SubSeq(externalFindings, 1, j - 1))

\* the position in the result of the finding that external finding j was
\* attached to; 0 when it was appended, or attached to none
AttachedTo(j) ==
    IF Fingerprint(externalFindings[j]) \in SeenBefore(j)
    THEN FindExisting(ResultBefore(j), externalFindings[j])
    ELSE 0

\* C24: after the merge every finding with verified = true has severity
\* CRITICAL, and so has every finding to which a verified external finding
\* was attached.
C24_VerifiedIsCritical ==
    mpc = "merged" =>
        /\ \A i \in 1..Len(merged) :
              merged[i].verified => merged[i].severity = "CRITICAL"
        /\ \A j \in 1..Len(externalFindings) :
              externalFindings[j].verified =>
                 \A i \in {AttachedTo(j)} :
                    i # 0 => merged[i].severity = "CRITICAL"

\* a verified external finding is attached to an internal finding of
\* MEDIUM severity, which is CRITICAL afterwards
C24_Witness ==
    /\ mpc = "merged"
    /\ Len(internalFindings) = 1
    /\ Len(externalFindings) = 1
    /\ internalFindings[1].severity = "MEDIUM"
    /\ externalFindings[1].verified
    /\ AttachedTo(1) = 1
    /\ Len(merged) = 1
    /\ merged[1].severity = "CRITICAL"
    /\ merged[1].verifiedBy = <<"TruffleHog">>

----------------------------------------------------------------------------
(* Properties of the format dispatch (SpecDispatch)                        *)

\* the lower-cased name ends with one of the extensions
NamedWith(family) ==
    \E e \in family : EndsWith(toLowerCase(archivePath), e)

\* C25: extractArchive dispatches by extension family: a name with a
\* zip-family extension goes to the zip extractor, one with a tar-family
\* extension (.tar.gz, .tar.bz2 and .tar.xz among them) to the tar
\* extractor, .7z and .rar to the 7z extractor, and only a single-stream
\* name (.gz, .bz2, .xz not preceded by .tar) to the system command.
C25_FamilyDispatch ==
    fpc = "extracting" =>
        method = (IF NamedWith(ZipFamily) THEN "extractZip"
                  ELSE IF NamedWith(TarFamily) THEN "extractTar"
                  ELSE IF NamedWith(SevenZipFamily) THEN "extract7z"
                  ELSE "extractWithSystemCommand")

----------------------------------------------------------------------------
(* Properties of the match preview (SpecDetect)                            *)

\* m is the preview of some text of the content: a text of at most 50
\* characters as it is, or the first 50 characters of a longer text
\* followed by the ellipsis
PreviewOfSomeText(content, m) ==
    \/ /\ Len(m) <= 50
       /\ includes(content, m)
    \/ /\ Len(m) = 50 + Len(Ellipsis)
       /\ SubSeq(m, 51, Len(m)) = Ellipsis
       /\ \E k \in 0..(Len(content) - 51) :
             SubSeq(content, k + 1, k + 50) = SubSeq(m, 1, 50)

\* C26: the match of every finding is the first at most 50 characters of
\* the matched text, followed by the ellipsis exactly when the matched text
\* is longer than 50 characters.
C26_MatchPreviewBound ==
    \A k \in 1..Len(returned) :
       \A i \in 1..Len(returned[k]) :
          PreviewOfSomeText(contents[k], returned[k][i].match)

\* the two records are the same finding: the fields the merge never writes
SameIdentity(f, g) ==
    /\ f.type = g.type
    /\ f.file = g.file
    /\ f.line = g.line
    /\ f.match = g.match
    /\ f.tool = g.tool
    /\ f.verified = g.verified

\* the external findings whose fingerprint is new when the loop reaches
\* them, by position, in order
Novel ==
    SelectSeq([j \in 1..Len(externalFindings) |-> j],
              LAMBDA j : Fingerprint(externalFindings[j]) \notin SeenBefore(j))

\* C27: the merged list starts with the internal findings in their order;
\* what follows are external findings, in the order of the external list,
\* each at most once and tagged with its tool as source; the length is
\* between |I| and |I| + |E|; no appended finding has the fingerprint of a
\* finding before it in the result.
C27_InternalPrefix ==
    mpc = "merged" =>
        \A n \in {Len(internalFindings)}, novel \in {Novel} :
           /\ n <= Len(merged)
           /\ Len(merged) <= n + Len(externalFindings)
           /\ \A i \in 1..n : SameIdentity(merged[i], internalFindings[i])
           /\ Len(merged) = n + Len(novel)
           /\ \A k \in 1..Len(novel) :
                 /\ SameIdentity(merged[n + k], externalFindings[novel[k]])
                 /\ merged[n + k].source = externalFindings[novel[k]].tool
                 /\ merged[n + k].isExternal
                 /\ \A fp \in {Fingerprint(merged[n + k])} :
                       \A i \in 1..(n + k - 1) : Fingerprint(merged[i]) # fp

\* of two different external findings with one fingerprint only the first
\* is appended
C27_Witness ==
    /\ mpc = "merged"
    /\ Len(externalFindings) = 2
    /\ externalFindings[1] # externalFindings[2]
    /\ Fingerprint(externalFindings[1]) = Fingerprint(externalFindings[2])
    /\ Len(merged) = 1
    /\ merged[1].source = "TruffleHog"

\* the finding the element i of the merged list was before the merge,
\* novel being the positions of the external findings that were appended
Origin(novel, i) ==
    IF i <= Len(internalFindings) THEN internalFindings[i]
    ELSE externalFindings[novel[i - Len(internalFindings)]]

\* C28: the merge leaves type, file, line and match of every finding as
\* they were, and its severity either as it was or CRITICAL; the severity
\* changes only on a finding a verified external finding was attached to.
C28_SeverityNeverLowered ==
    mpc = "merged" =>
        \A novel \in {Novel} :
           \A i \in 1..Len(merged) :
              \A before \in {Origin(novel, i)} :
                 /\ merged[i].type = before.type
                 /\ merged[i].file = before.file
                 /\ merged[i].line = before.line
                 /\ merged[i].match = before.match
                 /\ \/ merged[i].severity = before.severity
                    \/ /\ merged[i].severity = "CRITICAL"
                       /\ \E j \in 1..Len(externalFindings) :
                             /\ externalFindings[j].verified
                             /\ AttachedTo(j) = i

\* an unverified external finding is attached to an internal finding of
\* HIGH severity, which stays HIGH
C28_Witness ==
    /\ mpc = "merged"
    /\ Len(internalFindings) = 1
    /\ Len(externalFindings) = 1
    /\ ~externalFindings[1].verified
    /\ AttachedTo(1) = 1
    /\ internalFindings[1].severity = "HIGH"
    /\ merged[1].severity = "HIGH"
    /\ merged[1].verifiedBy = <<"TruffleHog">>

----------------------------------------------------------------------------
(* Properties of merges on one line (SpecSameLine)                         *)

\* C29: whenever the merge adds an external tool's name to a finding's
\* verifiedBy (or upgrades its severity), that finding has the fingerprint
\* of the external finding that caused it, also when several findings of
\* the result share file and line.
C29_CreditedToSameFingerprint ==
    mpc = "merged" =>
        \A j \in 1..Len(externalFindings) :
           AttachedTo(j) # 0 =>
              Fingerprint(ResultBefore(j)[AttachedTo(j)])
                 = Fingerprint(externalFindings[j])

----------------------------------------------------------------------------
(* No external finding lost (SpecMerge)                                    *)

\* the tool names recorded in the merged list, by finding and position
Corroborations ==
    UNION { { <<i, k>> : k \in 1..Len(merged[i].verifiedBy) } :
            i \in 1..Len(merged) }

\* C30: every external finding is either appended to the merged list (its
\* fingerprint is new) or has its tool name recorded in the verifiedBy of a
\* finding of the result (its fingerprint was seen), also when the
\* fingerprints coincide only after lower-casing.
C30_NoExternalFindingLost ==
    mpc = "merged" =>
        /\ Len(merged) = Len(internalFindings) + Len(Novel)
        /\ Cardinality(Corroborations) = Len(externalFindings) - Len(Novel)
        /\ \A j \in 1..Len(externalFindings) :
              Fingerprint(externalFindings[j]) \in SeenBefore(j)
                 => AttachedTo(j) # 0

====
